---- MODULE Spec2Model ----
(***************************************************************************)
(* Ritual War: the rule engine (src/game/logic.py) over the persistence    *)
(* store (src/game/storage.py).  One action per engine operation; every    *)
(* action is the whole call, with every store call it makes.               *)
(***************************************************************************)
EXTENDS Integers, FiniteSets, Sequences, TLC

\* ------------------------------------------------------------ config.py
THRESHOLD == 12
SHIELD_CLEANSE == 2
SIGNATURE_TTL_HOURS == 24
\* VEIL_REDUCTION = 0.5, kept exact as the fraction 1/2
VEIL_REDUCTION == <<1, 2>>
FRESH_BUCKETS == << <<0, 6, "Fresh">>, <<6, 18, "Warm">>, <<18, 24, "Cooling">> >>

\* ------------------------------------------------------------ universe
Users == {"u1", "u2", "u3"}
\* a fourth user, for the trains of two signers on a third target
Users4 == Users \cup {"u4"}
\* a channel id for set_channel
Channels == {"c1"}
\* the coroutines that may run engine calls at the same time
TaskIds == {1, 2}
Guilds == {"g1", "g2"}
Types == {"hex", "mend"}
\* the guild the single-guild specification plays in
G1 == "g1"

\* The clock advances in ticks of 6 hours, the common divisor of every hour
\* constant of config.py (6, 18, 24): bucket and TTL boundaries fall on ticks.
TickHours == FRESH_BUCKETS[1][2]
TicksPerDay == 24 \div TickHours
\* the clock stops at MaxTime ticks
MaxTime == 5
\* a behaviour makes at most MaxOps successful calls and clock moves
MaxOps == 4
\* the clock moves at most MaxTicksBetween times while calls are in flight
MaxTicksBetween == 1
\* doom values a player may start with (see Init)
InitDooms == {0, 10, 11}

\* Python None for Optional[int] (veil_until) and Optional[str] day keys
None == -1
\* Python None for Optional[str] user ids
NoUser == "none"

VARIABLES
    players,     \* table players: (user_id, guild_id) -> row
    signatures,  \* table signatures: set of rows
    claims,      \* table claims: set of rows
    state,       \* table state: set of rows (guild_id, key, value)
    now,         \* the wall clock, in ticks
    res,         \* the ActionResult of the last operation, with its call
    acted,       \* history: who completed a non-bypassed action today, who two
    ops,         \* number of successful calls and clock moves so far
    tasks        \* the engine calls in flight: each one's position and locals

vars == <<players, signatures, claims, state, now, res, acted, ops, tasks>>

\* ------------------------------------------------------------ timeutils.py
today_key(t) == t \div TicksPerDay
\* mutant: the hours are not added
timestamp_from_hours_now(t, hours) == t
timestamp_from_hours(t, hours) == t + hours \div TickHours
hours_since(t, timestamp) == (t - timestamp) * TickHours

RECURSIVE bucket_from(_, _)
bucket_from(i, hours_old) ==
    IF i > Len(FRESH_BUCKETS) THEN "Expired"
    ELSE IF FRESH_BUCKETS[i][1] <= hours_old /\ hours_old < FRESH_BUCKETS[i][2]
         THEN FRESH_BUCKETS[i][3]
         ELSE bucket_from(i + 1, hours_old)
get_freshness_bucket(hours_old) == bucket_from(1, hours_old)

\* mutant: max(...) where the code has min(...)
Min_max(S) == CHOOSE x \in S : \A y \in S : x >= y
Min(S) == CHOOSE x \in S : \A y \in S : x <= y
\* mutant: the floor is forgotten, max(0, x) is x
Max2_nofloor(a, b) == b
Max2(a, b) == IF a >= b THEN a ELSE b

\* ------------------------------------------------------------ models.py
Player(u, g, joined, doom, veil, lad, active) ==
    [user_id |-> u, guild_id |-> g, joined_at |-> joined, doom |-> doom,
     veil_until |-> veil, last_action_day |-> lad, active |-> active]
Signature(target, signer, g, type, exp) ==
    [target_id |-> target, signer_id |-> signer, guild_id |-> g, type |-> type,
     expires_at |-> exp]
Claim(target, g, type, claimant, exp) ==
    [target_id |-> target, guild_id |-> g, type |-> type, claimant_id |-> claimant,
     expires_at |-> exp]
\* ActionResult(success, message) with the dataclass defaults; doom_change and
\* new_doom default to None and are then left out of the record
ActionResult(success, message) ==
    [success |-> success, message |-> message, eliminated |-> FALSE,
     reflex_shield_triggered |-> FALSE, winner_id |-> NoUser]
ActionResultDoom(message, doom_change, new_doom, eliminated, reflex, winner) ==
    [success |-> TRUE, message |-> message, eliminated |-> eliminated,
     reflex_shield_triggered |-> reflex, winner_id |-> winner,
     doom_change |-> doom_change, new_doom |-> new_doom]
\* the call the result answers
Call(op, g, actor, target, type, bypass) ==
    [op |-> op, guild_id |-> g, actor |-> actor, target |-> target, type |-> type,
     bypass |-> bypass]
Returned(call, result) == [call |-> call, result |-> result]

\* ------------------------------------------------------------ storage.py
\* Each operator takes the table(s) it reads and returns what it returns or the
\* table as it leaves it.
\* mutant: the DELETE forgets the expires_at condition
purge_expired_signatures_all(S, g, t) ==
    {s \in S : s.guild_id # g}
purge_expired_signatures(S, g, t) ==
    {s \in S : ~(s.guild_id = g /\ s.expires_at <= t)}
\* mutant: the DELETE compares with < and keeps the row that expires now
purge_expired_claims_lt(C, g, t) ==
    {c \in C : ~(c.guild_id = g /\ c.expires_at < t)}
purge_expired_claims(C, g, t) ==
    {c \in C : ~(c.guild_id = g /\ c.expires_at <= t)}

has_player(P, u, g) == <<u, g>> \in DOMAIN P
get_player(P, u, g) == P[<<u, g>>]
\* get_player as the caller sees it: the row, or None when there is none
NoPlayer == [user_id |-> NoUser]
get_player_or_none(P, u, g) == IF has_player(P, u, g) THEN get_player(P, u, g) ELSE NoPlayer
\* mutant: the check forgets the active flag ("if not player")
is_active_any(P, u, g) == has_player(P, u, g)
\* "not player or not player.active" negated
is_active(P, u, g) == has_player(P, u, g) /\ get_player(P, u, g).active = 1
get_active_players(P, g) ==
    {k[1] : k \in {k \in DOMAIN P : k[2] = g /\ P[k].active = 1}}

create_player(P, u, g, t) ==
    IF has_player(P, u, g) THEN P
    ELSE (<<u, g>> :> Player(u, g, t, 0, None, None, 1)) @@ P

\* mutant: the UPDATE leaves last_action_day out of its SET list
update_player_nolad(P, player) ==
    LET k == <<player.user_id, player.guild_id>> IN
    IF k \in DOMAIN P
    THEN [P EXCEPT ![k] = [@ EXCEPT !.doom = player.doom,
                                    !.veil_until = player.veil_until,
                                    !.active = player.active]]
    ELSE P
\* UPDATE ... SET doom, veil_until, last_action_day, active WHERE user_id, guild_id
update_player(P, player) ==
    LET k == <<player.user_id, player.guild_id>> IN
    IF k \in DOMAIN P
    THEN [P EXCEPT ![k] = [@ EXCEPT !.doom = player.doom,
                                    !.veil_until = player.veil_until,
                                    !.last_action_day = player.last_action_day,
                                    !.active = player.active]]
    ELSE P

\* the SELECT of get_signatures / has_signature, on the table as purged
get_signatures(S, target, type, g) ==
    {s \in S : s.target_id = target /\ s.type = type /\ s.guild_id = g}
\* mutant: the WHERE clause forgets signer_id
has_signature_anysigner(S, target, signer, type, g) ==
    Cardinality({s \in S : s.target_id = target /\ s.type = type /\ s.guild_id = g}) > 0
has_signature(S, target, signer, type, g) ==
    Cardinality({s \in S : s.target_id = target /\ s.signer_id = signer
                           /\ s.type = type /\ s.guild_id = g}) > 0

\* the targets the user cannot hex / mend, by type; S is the table as purged
get_user_lockouts(S, user_id, g) ==
    [type \in Types |->
        {s.target_id : s \in {r \in S : r.signer_id = user_id /\ r.guild_id = g /\ r.type = type}}]

SameSigKey(a, b) ==
    /\ a.target_id = b.target_id /\ a.signer_id = b.signer_id
    /\ a.guild_id = b.guild_id /\ a.type = b.type
\* mutant: a plain INSERT into a table without the primary key
add_signature_insert(S, sig) == S \cup {sig}
\* INSERT OR REPLACE on PRIMARY KEY(target_id, signer_id, guild_id, type)
add_signature(S, sig) == {s \in S : ~SameSigKey(s, sig)} \cup {sig}
\* mutant: the DELETE also takes the rows that target the user
clear_signatures_target(S, u, g) ==
    {s \in S : ~((s.signer_id = u \/ s.target_id = u) /\ s.guild_id = g)}
clear_signatures(S, u, g) == {s \in S : ~(s.signer_id = u /\ s.guild_id = g)}

get_claims(C, target, type, g) ==
    {c \in C : c.target_id = target /\ c.type = type /\ c.guild_id = g}
add_claim(C, claim) == C \cup {claim}
\* mutant: the DELETE forgets claimant_id
remove_claim_anyclaimant(C, target, type, claimant, g) ==
    {c \in C : ~(c.target_id = target /\ c.type = type /\ c.guild_id = g)}
remove_claim(C, target, type, claimant, g) ==
    {c \in C : ~(c.target_id = target /\ c.type = type
                 /\ c.claimant_id = claimant /\ c.guild_id = g)}
clear_claims(C, u, g) == {c \in C : ~(c.claimant_id = u /\ c.guild_id = g)}

StateRow(g, key, value) == [guild_id |-> g, key |-> key, value |-> value]
get_state(St, key, g) ==
    LET rows == {r \in St : r.key = key /\ r.guild_id = g} IN
    IF rows = {} THEN NoUser ELSE (CHOOSE r \in rows : TRUE).value
\* mutant: the primary key is the guild alone, so a write replaces the guild's rows
set_state_guildkey(St, key, value, g) ==
    {r \in St : r.guild_id # g} \cup {StateRow(g, key, value)}
\* INSERT OR REPLACE on PRIMARY KEY(guild_id, key)
set_state(St, key, value, g) ==
    {r \in St : ~(r.guild_id = g /\ r.key = key)} \cup {StateRow(g, key, value)}
is_roster_locked(St, g) == get_state(St, "roster_locked", g) = "1"
\* mutant: the flag is written as "0"
lock_roster_off(St, g) == set_state(St, "roster_locked", "0", g)
lock_roster(St, g) == set_state(St, "roster_locked", "1", g)

\* mutant: the DELETE keeps the players who are out of the game
clear_all_players_active(P, g) ==
    [k \in {k \in DOMAIN P : k[2] # g \/ P[k].active = 0} |-> P[k]]
\* DELETE FROM players WHERE guild_id = ?
clear_all_players(P, g) ==
    [k \in {k \in DOMAIN P : k[2] # g} |-> P[k]]
\* mutant: the DELETE has no WHERE clause
clear_all_rows_everyguild(T, g) == {}
clear_all_rows(T, g) == {r \in T : r.guild_id # g}

\* ------------------------------------------------------------ logic.py
\* What an engine call leaves behind: the four tables and the ActionResult.
Outcome(P, S, C, St, result) ==
    [players |-> P, signatures |-> S, claims |-> C, state |-> St, result |-> result]

TTL == SIGNATURE_TTL_HOURS

\* "raw_damage = 1 + hex_train.count"
\* mutant: a hex that does no damage
raw_damage_of_none(count) == 0
raw_damage_of(count) == 1 + count
\* mutant: off by one, a target at exactly THRESHOLD survives
is_eliminated_gt(doom) == doom > THRESHOLD
\* "eliminated = target.doom >= THRESHOLD"
is_eliminated(doom) == doom >= THRESHOLD
\* mutant: the rejoin forgets to reset doom
reactivated_keepdoom(existing) ==
    [existing EXCEPT !.active = 1, !.veil_until = None, !.last_action_day = None]
\* the reset join_game gives an existing record
reactivated(existing) ==
    [existing EXCEPT !.active = 1, !.doom = 0, !.veil_until = None,
                     !.last_action_day = None]
\* mutant: the reduced damage is rounded up
veil_reduced_ceil(raw_damage) ==
    (raw_damage * VEIL_REDUCTION[1] + VEIL_REDUCTION[2] - 1) \div VEIL_REDUCTION[2]
\* floor(raw_damage * VEIL_REDUCTION)
veil_reduced(raw_damage) == (raw_damage * VEIL_REDUCTION[1]) \div VEIL_REDUCTION[2]
\* "target.veil_until and target.veil_until > int(now().timestamp())"
veil_is_active(player, t) ==
    player.veil_until # None /\ player.veil_until # 0 /\ player.veil_until > t

\* mutant: the lock is not consulted
can_join_game_open(St, g) == [ok |-> TRUE, reason |-> ""]
can_join_game(St, g) ==
    IF is_roster_locked(St, g)
    THEN [ok |-> FALSE, reason |-> "RosterLocked"]
    ELSE [ok |-> TRUE, reason |-> ""]

join_game(P, S, C, St, g, user_id, t) ==
    IF is_active(P, user_id, g)
    THEN Outcome(P, S, C, St, ActionResult(FALSE, "AlreadyJoined"))
    ELSE LET can == can_join_game(St, g) IN
         IF ~can.ok
         THEN Outcome(P, S, C, St, ActionResult(FALSE, can.reason))
         ELSE IF has_player(P, user_id, g)
              THEN LET existing == reactivated(get_player(P, user_id, g))
                   IN Outcome(update_player(P, existing), S, C, St,
                              ActionResult(TRUE, "Joined"))
              ELSE Outcome(create_player(P, user_id, g, t), S, C, St,
                           ActionResult(TRUE, "Joined"))

leave_game(P, S, C, St, g, user_id) ==
    IF ~is_active(P, user_id, g)
    THEN Outcome(P, S, C, St, ActionResult(FALSE, "NotInGame"))
    ELSE LET player == [get_player(P, user_id, g) EXCEPT !.active = 0] IN
         Outcome(update_player(P, player),
                 clear_signatures(S, user_id, g),
                 clear_claims(C, user_id, g),
                 St, ActionResult(TRUE, "Left"))

\* TrainStatus of the rows get_signatures returns (S is the table as purged)
get_train_status(S, target_id, sig_type, g, t) ==
    LET sigs == get_signatures(S, target_id, sig_type, g)
        count == Cardinality(sigs)
    IN IF count = 0
       THEN [count |-> 0, freshness |-> "Expired"]
       ELSE LET oldest_hours ==
                    Min({hours_since(t, sig.expires_at - TTL \div TickHours) :
                             sig \in sigs})
            IN [count |-> count, freshness |-> get_freshness_bucket(oldest_hours)]

\* mutant: the day of the last action is not compared
can_act_today_anyday(P, user_id, g, bypass_daily_limit, t) ==
    IF ~is_active(P, user_id, g)
    THEN [ok |-> FALSE, reason |-> "NotInGame"]
    ELSE [ok |-> TRUE, reason |-> ""]
can_act_today(P, user_id, g, bypass_daily_limit, t) ==
    IF ~is_active(P, user_id, g)
    THEN [ok |-> FALSE, reason |-> "NotInGame"]
    ELSE IF bypass_daily_limit
         THEN [ok |-> TRUE, reason |-> ""]
         ELSE IF get_player(P, user_id, g).last_action_day = today_key(t)
              THEN [ok |-> FALSE, reason |-> "AlreadyActedToday"]
              ELSE [ok |-> TRUE, reason |-> ""]

\* mutant: "if len(active_players) >= 1"
check_game_end_atleast(P, g) ==
    LET active_players == get_active_players(P, g) IN
    IF Cardinality(active_players) >= 1
    THEN CHOOSE u \in active_players : TRUE
    ELSE NoUser
check_game_end(P, g) ==
    LET active_players == get_active_players(P, g) IN
    IF Cardinality(active_players) = 1
    THEN CHOOSE u \in active_players : TRUE
    ELSE NoUser



hex_target(P, S, C, St, g, actor_id, target_id, bypass_daily_limit, t) ==
    IF actor_id = target_id
    THEN Outcome(P, S, C, St, ActionResult(FALSE, "SelfTarget"))
    ELSE IF ~is_active(P, actor_id, g)
    THEN Outcome(P, S, C, St, ActionResult(FALSE, "NotInGame"))
    ELSE IF ~is_active(P, target_id, g)
    THEN Outcome(P, S, C, St, ActionResult(FALSE, "TargetNotInGame"))
    ELSE LET can == can_act_today(P, actor_id, g, bypass_daily_limit, t) IN
    IF ~can.ok
    THEN Outcome(P, S, C, St, ActionResult(FALSE, can.reason))
    ELSE
    \* has_signature purges the guild's expired rows before it reads
    LET S1 == purge_expired_signatures(S, g, t)
        C1 == purge_expired_claims(C, g, t)
    IN
    IF has_signature(S1, target_id, actor_id, "hex", g)
    THEN Outcome(P, S1, C1, St, ActionResult(FALSE, "DuplicateSignature"))
    ELSE
    LET actor == get_player(P, actor_id, g)
        target == get_player(P, target_id, g)
        hex_train == get_train_status(S1, target_id, "hex", g, t)
        raw_damage == raw_damage_of(hex_train.count)
        reflex_shield_triggered ==
            /\ target.doom + raw_damage >= THRESHOLD
            /\ can_act_today(P, target_id, g, FALSE, t).ok
        target1 == IF reflex_shield_triggered
                   THEN [target EXCEPT
                            !.doom = Max2(0, target.doom - SHIELD_CLEANSE),
                            !.veil_until = timestamp_from_hours(t, TTL),
                            !.last_action_day = today_key(t)]
                   ELSE target
        P1 == IF reflex_shield_triggered THEN update_player(P, target1) ELSE P
        veil_active == veil_is_active(target1, t)
        final_damage == IF veil_active THEN veil_reduced(raw_damage) ELSE raw_damage
        new_doom == target1.doom + final_damage
        eliminated == is_eliminated(new_doom)
        target2 == [target1 EXCEPT !.doom = new_doom,
                                   !.active = IF eliminated THEN 0 ELSE @]
        St1 == IF eliminated /\ ~is_roster_locked(St, g)
               THEN lock_roster(St, g) ELSE St
        P2 == update_player(P1, target2)
        actor1 == [actor EXCEPT !.last_action_day = today_key(t)]
        P3 == update_player(P2, actor1)
        S2 == add_signature(S1, Signature(target_id, actor_id, g, "hex",
                                          timestamp_from_hours(t, TTL)))
        winner_id == check_game_end(P3, g)
    IN Outcome(P3, S2, C1, St1,
               ActionResultDoom("Hex", final_damage, target2.doom, eliminated,
                                reflex_shield_triggered, winner_id))

shield_self(P, S, C, St, g, user_id, bypass_daily_limit, t) ==
    IF ~is_active(P, user_id, g)
    THEN Outcome(P, S, C, St, ActionResult(FALSE, "NotInGame"))
    ELSE LET can == can_act_today(P, user_id, g, bypass_daily_limit, t) IN
    IF ~can.ok
    THEN Outcome(P, S, C, St, ActionResult(FALSE, can.reason))
    ELSE
    LET old == get_player(P, user_id, g)
        player == [old EXCEPT !.doom = Max2(0, old.doom - SHIELD_CLEANSE),
                              !.veil_until = timestamp_from_hours(t, TTL),
                              !.last_action_day = today_key(t)]
        doom_healed == old.doom - player.doom
    IN Outcome(update_player(P, player), S, C, St,
               ActionResultDoom("Shield", 0 - doom_healed, player.doom,
                                FALSE, FALSE, NoUser))

mend_target(P, S, C, St, g, actor_id, target_id, bypass_daily_limit, t) ==
    IF ~is_active(P, actor_id, g)
    THEN Outcome(P, S, C, St, ActionResult(FALSE, "NotInGame"))
    ELSE IF ~is_active(P, target_id, g)
    THEN Outcome(P, S, C, St, ActionResult(FALSE, "TargetNotInGame"))
    ELSE LET can == can_act_today(P, actor_id, g, bypass_daily_limit, t) IN
    IF ~can.ok
    THEN Outcome(P, S, C, St, ActionResult(FALSE, can.reason))
    ELSE
    LET S1 == purge_expired_signatures(S, g, t)
        C1 == purge_expired_claims(C, g, t)
    IN
    IF has_signature(S1, target_id, actor_id, "mend", g)
    THEN Outcome(P, S1, C1, St, ActionResult(FALSE, "DuplicateSignature"))
    ELSE
    \* actor and target are two objects, also when they are the same row
    LET actor == get_player(P, actor_id, g)
        target == get_player(P, target_id, g)
        mend_train == get_train_status(S1, target_id, "mend", g, t)
        healing == 1 + mend_train.count
        target1 == [target EXCEPT !.doom = Max2(0, target.doom - healing)]
        actual_healing == target.doom - target1.doom
        P1 == update_player(P, target1)
        actor1 == [actor EXCEPT !.last_action_day = today_key(t)]
        P2 == update_player(P1, actor1)
        S2 == add_signature(S1, Signature(target_id, actor_id, g, "mend",
                                          timestamp_from_hours(t, TTL)))
    IN Outcome(P2, S2, C1, St,
               ActionResultDoom("Mend", 0 - actual_healing, target1.doom,
                                FALSE, FALSE, NoUser))

claim_signature(P, S, C, St, g, claimant_id, target_id, claim_type, t) ==
    IF ~is_active(P, claimant_id, g)
    THEN Outcome(P, S, C, St, ActionResult(FALSE, "NotInGame"))
    ELSE IF ~is_active(P, target_id, g)
    THEN Outcome(P, S, C, St, ActionResult(FALSE, "TargetNotInGame"))
    ELSE
    LET S1 == purge_expired_signatures(S, g, t)
        C1 == purge_expired_claims(C, g, t)
        sigs == get_signatures(S1, target_id, claim_type, g)
        current_claims == get_claims(C1, target_id, claim_type, g)
        signature_count == Cardinality(sigs)
        claim_count == Cardinality(current_claims)
    IN
    IF signature_count = 0
    THEN Outcome(P, S1, C1, St, ActionResult(FALSE, "NoActiveTrain"))
    ELSE IF claim_count >= signature_count
    THEN Outcome(P, S1, C1, St, ActionResult(FALSE, "TrainFull"))
    ELSE IF \E claim \in current_claims : claim.claimant_id = claimant_id
    THEN Outcome(P, S1, C1, St, ActionResult(FALSE, "AlreadyClaimed"))
    ELSE
    LET train_expires_at == Min({sig.expires_at : sig \in sigs})
        claim == Claim(target_id, g, claim_type, claimant_id, train_expires_at)
    IN Outcome(P, S1, add_claim(C1, claim), St, ActionResult(TRUE, "Claimed"))

unclaim_signature(P, S, C, St, g, claimant_id, target_id, claim_type, t) ==
    IF ~is_active(P, claimant_id, g)
    THEN Outcome(P, S, C, St, ActionResult(FALSE, "NotInGame"))
    ELSE IF ~is_active(P, target_id, g)
    THEN Outcome(P, S, C, St, ActionResult(FALSE, "TargetNotInGame"))
    ELSE
    LET S1 == purge_expired_signatures(S, g, t)
        C1 == purge_expired_claims(C, g, t)
        current_claims == get_claims(C1, target_id, claim_type, g)
    IN
    IF ~(\E claim \in current_claims : claim.claimant_id = claimant_id)
    THEN Outcome(P, S1, C1, St, ActionResult(FALSE, "NoClaim"))
    ELSE Outcome(P, S1, remove_claim(C1, target_id, claim_type, claimant_id, g),
                 St, ActionResult(TRUE, "Unclaimed"))

\* clear_all_game_data, then "return True"
reset_game(P, S, C, St, g) ==
    Outcome(clear_all_players(P, g), clear_all_rows(S, g), clear_all_rows(C, g),
            clear_all_rows(St, g), ActionResult(TRUE, "Reset"))

\* ------------------------------------------------------------ the state machine
\* History of the daily actions: who completed a successful non-bypassed hex,
\* mend or shield on the current calendar day, and who completed a second one.
\* And the targets for whom a Reflex Shield fired on the current day and who
\* have not left or joined since (reflex), and those for whom it fired again.
Counts(call, result) ==
    result.success /\ call.op \in {"hex", "mend", "shield"} /\ ~call.bypass
Record(call, result) ==
    LET k == <<call.actor, call.guild_id>>
        kt == <<call.target, call.guild_id>>
        daily == IF ~Counts(call, result) THEN acted
                 ELSE IF k \in acted.today
                      THEN [acted EXCEPT !.twice = @ \cup {k}]
                      ELSE [acted EXCEPT !.today = @ \cup {k}]
    IN IF call.op = "hex" /\ result.success /\ result.reflex_shield_triggered
       THEN IF kt \in acted.reflex
            THEN [daily EXCEPT !.reflex_twice = @ \cup {kt}]
            ELSE [daily EXCEPT !.reflex = @ \cup {kt}]
       ELSE IF call.op \in {"join", "leave"} /\ result.success
       THEN [daily EXCEPT !.reflex = @ \ {k}]
       ELSE IF call.op = "reset"
       THEN [daily EXCEPT !.reflex = {r \in @ : r[2] # call.guild_id}]
       ELSE daily

\* no call in flight
NoCall == Call("none", G1, NoUser, NoUser, "", FALSE)
NoResult == ActionResult(FALSE, "none")
\* A call in flight: pc names the store call it awaits next, the other fields
\* are its local variables (actor, target, hex_train.count, mend_train.count,
\* reflex_shield_triggered, final_damage, the signature's expires_at), result
\* is what it returned once pc is "done".
Task(pc, call, actor, target, hex_count, mend_count, reflex, final_damage, expires, result) ==
    [pc |-> pc, call |-> call, actor |-> actor, target |-> target,
     hex_count |-> hex_count, mend_count |-> mend_count,
     reflex_shield_triggered |-> reflex, final_damage |-> final_damage,
     expires_at |-> expires, signatures |-> {}, current_claims |-> {},
     result |-> result]
Idle == Task("idle", NoCall, NoPlayer, NoPlayer, 0, 0, FALSE, 0, None, NoResult)
\* the call has returned: its locals are gone, its result stays
Done(task, result) ==
    Task("done", task.call, NoPlayer, NoPlayer, 0, 0, FALSE, 0, task.expires_at, result)

\* An engine call returns: the store is as the call left it.  res keeps the last
\* call that succeeded; a call that fails leaves at most a purge behind.
Return(call, out) ==
    /\ ops < MaxOps
    /\ ops' = IF out.result.success THEN ops + 1 ELSE ops
    /\ players' = out.players
    /\ signatures' = out.signatures
    /\ claims' = out.claims
    /\ state' = out.state
    /\ res' = IF out.result.success THEN Returned(call, out.result) ELSE res
    /\ acted' = Record(call, out.result)
    /\ UNCHANGED <<now, tasks>>

\* A store that holds a game in progress in guild g1.  Some users have joined
\* (users are interchangeable, so the joined sets are taken up to renaming), and
\* the first of them may have been hexed on earlier days, by players who have
\* since left and rejoined (join_game resets them), up to a doom below the
\* threshold; every signature of those days has expired and been purged.
InitJoined == {{}, {"u1"}, {"u1", "u2"}, {"u1", "u2", "u3"}}
Init ==
    /\ \E joined \in InitJoined, d \in InitDooms :
          players = [k \in {<<u, G1>> : u \in joined} |->
                        Player(k[1], G1, 0, IF k[1] = "u1" THEN d ELSE 0,
                               None, None, 1)]
    /\ signatures = {}
    /\ claims = {}
    /\ state = {}
    /\ now = 0
    /\ res = Returned(Call("init", G1, NoUser, NoUser, "", FALSE), ActionResult(TRUE, ""))
    /\ acted = [today |-> {}, twice |-> {}, reflex |-> {}, reflex_twice |-> {}]
    /\ ops = 0
    /\ tasks = [i \in TaskIds |-> Idle]

JoinGame(g, u) ==
    Return(Call("join", g, u, NoUser, "", FALSE),
           join_game(players, signatures, claims, state, g, u, now))

LeaveGame(g, u) ==
    Return(Call("leave", g, u, NoUser, "", FALSE),
           leave_game(players, signatures, claims, state, g, u))

HexTarget(g, a, t, bypass) ==
    Return(Call("hex", g, a, t, "hex", bypass),
           hex_target(players, signatures, claims, state, g, a, t, bypass, now))

MendTarget(g, a, t, bypass) ==
    Return(Call("mend", g, a, t, "mend", bypass),
           mend_target(players, signatures, claims, state, g, a, t, bypass, now))

ShieldSelf(g, u, bypass) ==
    Return(Call("shield", g, u, NoUser, "", bypass),
           shield_self(players, signatures, claims, state, g, u, bypass, now))

ClaimSignature(g, c, t, type) ==
    Return(Call("claim", g, c, t, type, FALSE),
           claim_signature(players, signatures, claims, state, g, c, t, type, now))

UnclaimSignature(g, c, t, type) ==
    Return(Call("unclaim", g, c, t, type, FALSE),
           unclaim_signature(players, signatures, claims, state, g, c, t, type, now))

ResetGame(g) ==
    /\ Return(Call("reset", g, NoUser, NoUser, "", FALSE),
              reset_game(players, signatures, claims, state, g))

\* admin_setchannel (commands.py): one set_state call
SetChannel(g, channel) ==
    /\ ops < MaxOps
    /\ ops' = ops + 1
    /\ state' = set_state(state, "public_channel", channel, g)
    /\ res' = Returned(Call("set_channel", g, NoUser, NoUser, "", FALSE),
                       ActionResult(TRUE, channel))
    /\ UNCHANGED <<players, signatures, claims, now, acted, tasks>>

\* The wall clock moves on by d ticks (six hours or a day at a time); nothing is
\* purged until the next read.
Tick(d) ==
    /\ now + d <= MaxTime
    /\ ops < MaxOps
    /\ ops' = ops + 1
    /\ now' = now + d
    /\ res' = Returned(Call("tick", G1, NoUser, NoUser, "", FALSE), ActionResult(TRUE, ""))
    /\ acted' = IF today_key(now + d) = today_key(now) THEN acted
                ELSE [acted EXCEPT !.today = {}, !.reflex = {}]
    /\ UNCHANGED <<players, signatures, claims, state, tasks>>

\* The command layer (src/game/commands.py) never passes bypass_daily_limit,
\* so the calls of a behaviour use its default; the claims that speak of a
\* bypassed call evaluate the engine operator with bypass_daily_limit = TRUE.
Next ==
    \/ \E u \in Users : JoinGame(G1, u)
    \/ \E u \in Users : LeaveGame(G1, u)
    \/ \E a, t \in Users : HexTarget(G1, a, t, FALSE)
    \/ \E a, t \in Users : MendTarget(G1, a, t, FALSE)
    \/ \E u \in Users : ShieldSelf(G1, u, FALSE)
    \/ \E c, t \in Users, type \in Types : ClaimSignature(G1, c, t, type)
    \/ \E c, t \in Users, type \in Types : UnclaimSignature(G1, c, t, type)
    \/ ResetGame(G1)
    \/ \E channel \in Channels : SetChannel(G1, channel)
    \/ \E d \in {1, TicksPerDay} : Tick(d)

Spec == Init /\ [][Next]_vars

\* A game of four players in which only hexes and shields are cast: the hex
\* train on a target grows to two and three signers.
InitTrain ==
    /\ \E d \in InitDooms :
          players = [k \in {<<u, G1>> : u \in Users4} |->
                        Player(k[1], G1, 0, IF k[1] = "u1" THEN d ELSE 0,
                               None, None, 1)]
    /\ signatures = {}
    /\ claims = {}
    /\ state = {}
    /\ now = 0
    /\ res = Returned(Call("init", G1, NoUser, NoUser, "", FALSE), ActionResult(TRUE, ""))
    /\ acted = [today |-> {}, twice |-> {}, reflex |-> {}, reflex_twice |-> {}]
    /\ ops = 0
    /\ tasks = [i \in TaskIds |-> Idle]

NextTrain ==
    \/ \E a, t \in Users4 : HexTarget(G1, a, t, FALSE)
    \/ \E u \in Users4 : ShieldSelf(G1, u, FALSE)
    \/ \E d \in {1, TicksPerDay} : Tick(d)

SpecTrain == InitTrain /\ [][NextTrain]_vars

\* A game of three players that starts at any hour of the day, in which
\* signatures and claims are written and the clock runs on: signatures are
\* live on the next calendar day, trains hold signatures of different ages.
InitClock ==
    /\ players = [k \in {<<u, G1>> : u \in Users} |->
                     Player(k[1], G1, 0, 0, None, None, 1)]
    /\ signatures = {}
    /\ claims = {}
    /\ state = {}
    /\ now \in 0..(TicksPerDay - 1)
    /\ res = Returned(Call("init", G1, NoUser, NoUser, "", FALSE), ActionResult(TRUE, ""))
    /\ acted = [today |-> {}, twice |-> {}, reflex |-> {}, reflex_twice |-> {}]
    /\ ops = 0
    /\ tasks = [i \in TaskIds |-> Idle]

NextClock ==
    \/ \E a, t \in Users : HexTarget(G1, a, t, FALSE)
    \/ \E a, t \in Users : MendTarget(G1, a, t, FALSE)
    \/ \E c, t \in Users, type \in Types : ClaimSignature(G1, c, t, type)
    \/ \E c, t \in Users, type \in Types : UnclaimSignature(G1, c, t, type)
    \/ \E d \in {1, TicksPerDay} : Tick(d)

SpecClock == InitClock /\ [][NextClock]_vars

\* An endgame of three players, two of them close to the threshold: players
\* are eliminated one after another.
InitEnd ==
    /\ \E d1, d2 \in InitDooms :
          players = [k \in {<<u, G1>> : u \in Users} |->
                        Player(k[1], G1, 0,
                               IF k[1] = "u1" THEN d1 ELSE IF k[1] = "u2" THEN d2 ELSE 0,
                               None, None, 1)]
    /\ signatures = {}
    /\ claims = {}
    /\ state = {}
    /\ now = 0
    /\ res = Returned(Call("init", G1, NoUser, NoUser, "", FALSE), ActionResult(TRUE, ""))
    /\ acted = [today |-> {}, twice |-> {}, reflex |-> {}, reflex_twice |-> {}]
    /\ ops = 0
    /\ tasks = [i \in TaskIds |-> Idle]

NextEnd ==
    \/ \E a, t \in Users : HexTarget(G1, a, t, FALSE)
    \/ \E u \in Users : ShieldSelf(G1, u, FALSE)
    \/ \E u \in Users : LeaveGame(G1, u)
    \/ \E u \in Users : JoinGame(G1, u)
    \/ \E d \in {1, TicksPerDay} : Tick(d)

SpecEnd == InitEnd /\ [][NextEnd]_vars

\* A game in which u2 and u3 have hexed u1 today, six hours apart: a hex train
\* of two signatures of different ages, on which claims are made and dropped
\* while signers leave and the clock runs on.
InitClaims ==
    /\ players = [k \in {<<u, G1>> : u \in Users} |->
                     IF k[1] = "u1"
                     THEN Player(k[1], G1, 0, 3, None, None, 1)
                     ELSE Player(k[1], G1, 0, 0, None, today_key(1), 1)]
    /\ signatures = {Signature("u1", "u2", G1, "hex", timestamp_from_hours(0, TTL)),
                     Signature("u1", "u3", G1, "hex", timestamp_from_hours(1, TTL))}
    /\ claims = {}
    /\ state = {}
    /\ now = 1
    /\ res = Returned(Call("hex", G1, "u3", "u1", "hex", FALSE),
                      ActionResultDoom("Hex", 2, 3, FALSE, FALSE, NoUser))
    /\ acted = [today |-> {<<"u2", G1>>, <<"u3", G1>>}, twice |-> {}, reflex |-> {}, reflex_twice |-> {}]
    /\ ops = 0
    /\ tasks = [i \in TaskIds |-> Idle]

NextClaims ==
    \/ \E c, t \in Users, type \in Types : ClaimSignature(G1, c, t, type)
    \/ \E c, t \in Users, type \in Types : UnclaimSignature(G1, c, t, type)
    \/ \E a, t \in Users : MendTarget(G1, a, t, FALSE)
    \/ \E u \in Users : LeaveGame(G1, u)
    \/ \E d \in {1, TicksPerDay} : Tick(d)

SpecClaims == InitClaims /\ [][NextClaims]_vars

\* ------------------------------------------------------------ concurrent calls
\* The handlers are coroutines on one event loop: a call runs until it awaits
\* a store call, and another call may run its own store calls meanwhile.  One
\* step is one store call, which commits on its own (purge_expired and the
\* SELECT that follows it touch disjoint rows, a purge only deleting rows no
\* SELECT returns), together with the local code up to the next await.
Stepped(task, P, S, C, St) ==
    [task |-> task, players |-> P, signatures |-> S, claims |-> C, state |-> St]
not_in_game(player) == player = NoPlayer \/ player.active # 1

\* mutant: the elimination does not clear active
apply_damage_keepactive(task, t) ==
    LET target == task.target
        raw_damage == raw_damage_of(task.hex_count)
        veil_active == veil_is_active(target, t)
        final_damage == IF veil_active THEN veil_reduced(raw_damage) ELSE raw_damage
        new_doom == target.doom + final_damage
        eliminated == is_eliminated(new_doom)
    IN [task EXCEPT !.target = [target EXCEPT !.doom = new_doom,
                                              !.active = @],
                    !.final_damage = final_damage,
                    !.pc = IF eliminated THEN "is_roster_locked" ELSE "update_target"]
\* logic.py 137-150: the veil, the damage and the elimination, on the local target
apply_damage(task, t) ==
    LET target == task.target
        raw_damage == raw_damage_of(task.hex_count)
        veil_active == veil_is_active(target, t)
        final_damage == IF veil_active THEN veil_reduced(raw_damage) ELSE raw_damage
        new_doom == target.doom + final_damage
        eliminated == is_eliminated(new_doom)
    IN [task EXCEPT !.target = [target EXCEPT !.doom = new_doom,
                                              !.active = IF eliminated THEN 0 ELSE @],
                    !.final_damage = final_damage,
                    !.pc = IF eliminated THEN "is_roster_locked" ELSE "update_target"]

\* hex_target, one store call at a time
hex_step(task, P, S, C, St, t) ==
    LET g == task.call.guild_id
        actor_id == task.call.actor
        target_id == task.call.target
        S1 == purge_expired_signatures(S, g, t)
        C1 == purge_expired_claims(C, g, t)
    IN
    CASE task.pc = "get_actor" ->
           Stepped([task EXCEPT !.actor = get_player_or_none(P, actor_id, g),
                                !.pc = "get_target"], P, S, C, St)
      [] task.pc = "get_target" ->
           LET target == get_player_or_none(P, target_id, g) IN
           IF not_in_game(task.actor)
           THEN Stepped(Done(task, ActionResult(FALSE, "NotInGame")), P, S, C, St)
           ELSE IF not_in_game(target)
           THEN Stepped(Done(task, ActionResult(FALSE, "TargetNotInGame")), P, S, C, St)
           ELSE Stepped([task EXCEPT !.target = target, !.pc = "can_act_today"],
                        P, S, C, St)
      [] task.pc = "can_act_today" ->
           LET can == can_act_today(P, actor_id, g, task.call.bypass, t) IN
           IF ~can.ok
           THEN Stepped(Done(task, ActionResult(FALSE, can.reason)), P, S, C, St)
           ELSE Stepped([task EXCEPT !.pc = "has_signature"], P, S, C, St)
      [] task.pc = "has_signature" ->
           IF has_signature(S1, target_id, actor_id, "hex", g)
           THEN Stepped(Done(task, ActionResult(FALSE, "DuplicateSignature")),
                        P, S1, C1, St)
           ELSE Stepped([task EXCEPT !.pc = "hex_train"], P, S1, C1, St)
      [] task.pc = "hex_train" ->
           Stepped([task EXCEPT
                      !.hex_count = get_train_status(S1, target_id, "hex", g, t).count,
                      !.pc = "mend_train"], P, S1, C1, St)
      [] task.pc = "mend_train" ->
           LET task1 == [task EXCEPT !.mend_count =
                             get_train_status(S1, target_id, "mend", g, t).count]
           IN IF task.target.doom + raw_damage_of(task.hex_count) >= THRESHOLD
              THEN Stepped([task1 EXCEPT !.pc = "reflex_can_act"], P, S1, C1, St)
              ELSE Stepped(apply_damage(task1, t), P, S1, C1, St)
      [] task.pc = "reflex_can_act" ->
           IF can_act_today(P, target_id, g, FALSE, t).ok
           THEN Stepped([task EXCEPT
                           !.reflex_shield_triggered = TRUE,
                           !.target = [@ EXCEPT
                               !.doom = Max2(0, @ - SHIELD_CLEANSE),
                               !.veil_until = timestamp_from_hours(t, TTL),
                               !.last_action_day = today_key(t)],
                           !.pc = "reflex_update"], P, S, C, St)
           ELSE Stepped(apply_damage(task, t), P, S, C, St)
      [] task.pc = "reflex_update" ->
           Stepped(apply_damage(task, t), update_player(P, task.target), S, C, St)
      [] task.pc = "is_roster_locked" ->
           Stepped([task EXCEPT !.pc = IF is_roster_locked(St, g)
                                        THEN "update_target" ELSE "lock_roster"],
                   P, S, C, St)
      [] task.pc = "lock_roster" ->
           Stepped([task EXCEPT !.pc = "update_target"], P, S, C, lock_roster(St, g))
      [] task.pc = "update_target" ->
           Stepped([task EXCEPT !.actor = [@ EXCEPT !.last_action_day = today_key(t)],
                                !.pc = "update_actor"],
                   update_player(P, task.target), S, C, St)
      [] task.pc = "update_actor" ->
           Stepped([task EXCEPT !.expires_at = timestamp_from_hours(t, TTL),
                                !.pc = "add_signature"],
                   update_player(P, task.actor), S, C, St)
      [] task.pc = "add_signature" ->
           Stepped([task EXCEPT !.pc = "train_after"], P,
                   add_signature(S, Signature(target_id, actor_id, g, "hex",
                                              task.expires_at)), C, St)
      [] task.pc = "train_after" ->
           Stepped([task EXCEPT !.pc = "check_game_end"], P, S1, C1, St)
      [] task.pc = "check_game_end" ->
           Stepped(Done(task, ActionResultDoom("Hex", task.final_damage,
                                               task.target.doom,
                                               is_eliminated(task.target.doom),
                                               task.reflex_shield_triggered,
                                               check_game_end(P, g))),
                   P, S, C, St)

\* mend_target, one store call at a time
mend_step(task, P, S, C, St, t) ==
    LET g == task.call.guild_id
        actor_id == task.call.actor
        target_id == task.call.target
        S1 == purge_expired_signatures(S, g, t)
        C1 == purge_expired_claims(C, g, t)
    IN
    CASE task.pc = "get_actor" ->
           Stepped([task EXCEPT !.actor = get_player_or_none(P, actor_id, g),
                                !.pc = "get_target"], P, S, C, St)
      [] task.pc = "get_target" ->
           LET target == get_player_or_none(P, target_id, g) IN
           IF not_in_game(task.actor)
           THEN Stepped(Done(task, ActionResult(FALSE, "NotInGame")), P, S, C, St)
           ELSE IF not_in_game(target)
           THEN Stepped(Done(task, ActionResult(FALSE, "TargetNotInGame")), P, S, C, St)
           ELSE Stepped([task EXCEPT !.target = target, !.pc = "can_act_today"],
                        P, S, C, St)
      [] task.pc = "can_act_today" ->
           LET can == can_act_today(P, actor_id, g, task.call.bypass, t) IN
           IF ~can.ok
           THEN Stepped(Done(task, ActionResult(FALSE, can.reason)), P, S, C, St)
           ELSE Stepped([task EXCEPT !.pc = "has_signature"], P, S, C, St)
      [] task.pc = "has_signature" ->
           IF has_signature(S1, target_id, actor_id, "mend", g)
           THEN Stepped(Done(task, ActionResult(FALSE, "DuplicateSignature")),
                        P, S1, C1, St)
           ELSE Stepped([task EXCEPT !.pc = "hex_train"], P, S1, C1, St)
      [] task.pc = "hex_train" ->
           Stepped([task EXCEPT
                      !.hex_count = get_train_status(S1, target_id, "hex", g, t).count,
                      !.pc = "mend_train"], P, S1, C1, St)
      [] task.pc = "mend_train" ->
           LET mend_count == get_train_status(S1, target_id, "mend", g, t).count
               healing == 1 + mend_count
               old_doom == task.target.doom
               new_doom == Max2(0, old_doom - healing)
           IN Stepped([task EXCEPT !.mend_count = mend_count,
                                   !.target = [@ EXCEPT !.doom = new_doom],
                                   !.final_damage = 0 - (old_doom - new_doom),
                                   !.pc = "update_target"], P, S1, C1, St)
      [] task.pc = "update_target" ->
           Stepped([task EXCEPT !.actor = [@ EXCEPT !.last_action_day = today_key(t)],
                                !.pc = "update_actor"],
                   update_player(P, task.target), S, C, St)
      [] task.pc = "update_actor" ->
           Stepped([task EXCEPT !.expires_at = timestamp_from_hours(t, TTL),
                                !.pc = "add_signature"],
                   update_player(P, task.actor), S, C, St)
      [] task.pc = "add_signature" ->
           Stepped([task EXCEPT !.pc = "train_after"], P,
                   add_signature(S, Signature(target_id, actor_id, g, "mend",
                                              task.expires_at)), C, St)
      [] task.pc = "train_after" ->
           Stepped(Done(task, ActionResultDoom("Mend", task.final_damage,
                                               task.target.doom, FALSE, FALSE, NoUser)),
                   P, S1, C1, St)

\* Task ids are interchangeable: the free task of lowest id takes the call
Free(i) == tasks[i].pc = "idle" /\ \A j \in TaskIds : j < i => tasks[j].pc # "idle"

\* A handler starts a call: the code before the first await
StartHex(i, g, a, t) ==
    /\ Free(i)
    /\ LET call == Call("hex", g, a, t, "hex", FALSE) IN
       tasks' = [tasks EXCEPT ![i] =
                    IF a = t THEN Done([@ EXCEPT !.call = call],
                                       ActionResult(FALSE, "SelfTarget"))
                    ELSE [@ EXCEPT !.call = call, !.pc = "get_actor"]]
    /\ UNCHANGED <<players, signatures, claims, state, now, res, acted, ops>>

StartMend(i, g, a, t) ==
    /\ Free(i)
    /\ tasks' = [tasks EXCEPT ![i] = [@ EXCEPT !.call = Call("mend", g, a, t, "mend", FALSE),
                                               !.pc = "get_actor"]]
    /\ UNCHANGED <<players, signatures, claims, state, now, res, acted, ops>>

\* The call of task i makes its next store call; res takes the result when the
\* call returns.
Step(i, out) ==
    /\ tasks' = [tasks EXCEPT ![i] = out.task]
    /\ players' = out.players
    /\ signatures' = out.signatures
    /\ claims' = out.claims
    /\ state' = out.state
    /\ res' = IF out.task.pc = "done" /\ out.task.result.success
              THEN Returned(out.task.call, out.task.result) ELSE res
    /\ acted' = IF out.task.pc = "done"
                THEN Record(out.task.call, out.task.result) ELSE acted
    /\ UNCHANGED <<now, ops>>

HexStep(i) ==
    /\ tasks[i].pc \notin {"idle", "done"}
    /\ tasks[i].call.op = "hex"
    /\ Step(i, hex_step(tasks[i], players, signatures, claims, state, now))

MendStep(i) ==
    /\ tasks[i].pc \notin {"idle", "done"}
    /\ tasks[i].call.op = "mend"
    /\ Step(i, mend_step(tasks[i], players, signatures, claims, state, now))

\* The clock moves on by six hours while calls are in flight
TickBetween == ops < MaxTicksBetween /\ Tick(1)

\* Three players in a game in progress, two calls in flight at most, the clock
\* moving between their store calls.
InitConc ==
    /\ \E d \in InitDooms :
          players = [k \in {<<u, G1>> : u \in Users} |->
                        Player(k[1], G1, 0, IF k[1] = "u1" THEN d ELSE 0,
                               None, None, 1)]
    /\ signatures = {}
    /\ claims = {}
    /\ state = {}
    /\ now = 0
    /\ res = Returned(Call("init", G1, NoUser, NoUser, "", FALSE), ActionResult(TRUE, ""))
    /\ acted = [today |-> {}, twice |-> {}, reflex |-> {}, reflex_twice |-> {}]
    /\ ops = 0
    /\ tasks = [i \in TaskIds |-> Idle]

NextConc ==
    \/ \E i \in TaskIds, a, t \in Users : StartHex(i, G1, a, t)
    \/ \E i \in TaskIds, a, t \in Users : StartMend(i, G1, a, t)
    \/ \E i \in TaskIds : HexStep(i)
    \/ \E i \in TaskIds : MendStep(i)
    \/ TickBetween

SpecConc == InitConc /\ [][NextConc]_vars

\* ------------------------------------------------------------ the claims
\* rows of a table that a read at the current time would still return
Live(rows) == {r \in rows : r.expires_at > now}
LiveSignatures(target, type, g) == Live(get_signatures(signatures, target, type, g))
LiveClaims(target, type, g) == Live(get_claims(claims, target, type, g))
Row(u) == players[<<u, G1>>]

\* C1 (P1, elimination threshold): in every state between completed calls, a
\* player whose stored doom is >= THRESHOLD is inactive, an active player has a
\* doom in 0..THRESHOLD-1, and right after a successful hex its target is
\* inactive exactly when its stored doom is >= THRESHOLD.
C1_EliminationThreshold ==
    /\ \A k \in DOMAIN players :
          /\ players[k].doom >= THRESHOLD => players[k].active = 0
          /\ players[k].active = 1 => players[k].doom \in 0..(THRESHOLD - 1)
    /\ res.call.op = "hex" =>
          /\ Row(res.call.target).active = 0 <=> Row(res.call.target).doom >= THRESHOLD
          /\ res.result.eliminated <=> Row(res.call.target).active = 0
          /\ res.result.new_doom = Row(res.call.target).doom
\* a hex has just eliminated its target
C1_Witness ==
    /\ res.call.op = "hex"
    /\ res.result.eliminated
    /\ Row(res.call.target).active = 0
    /\ Row(res.call.target).doom >= THRESHOLD

\* C2 (P5, daily action limit): no player completes two successful non-bypassed
\* actions (hex, mend, shield) on the same calendar day.
C2_DailyLimit == acted.twice = {}

\* C3 (P3, claim bound): for every (target, type), at every point, the number of
\* live claims is at most the number of live signatures.
C3_ClaimBound ==
    \A target \in Users, type \in Types :
        Cardinality(LiveClaims(target, type, G1))
            <= Cardinality(LiveSignatures(target, type, G1))

\* C4: for every (target, signer, guild, type) the store holds at most one
\* signature at any time, under any interleaving of the store calls of
\* hex_target and mend_target; an add_signature on a key the store already
\* holds leaves one row for the key, carrying the new expires_at, and leaves
\* the rows of every other key alone.
C4_SignatureUnique ==
    /\ \A s1, s2 \in signatures : SameSigKey(s1, s2) => s1 = s2
    /\ \A i \in TaskIds :
          tasks[i].pc = "add_signature" =>
             LET sig == Signature(tasks[i].call.target, tasks[i].call.actor,
                                  tasks[i].call.guild_id, tasks[i].call.type,
                                  tasks[i].expires_at)
                 after == add_signature(signatures, sig)
             IN /\ {s \in after : SameSigKey(s, sig)} = {sig}
                /\ {s \in after : ~SameSigKey(s, sig)}
                      = {s \in signatures : ~SameSigKey(s, sig)}
\* two calls of the same actor on the same target have both passed has_signature
\* and both added their signature, six hours apart
C4_Witness ==
    /\ \A i \in TaskIds : tasks[i].pc = "done" /\ tasks[i].result.success
    /\ tasks[1].call = tasks[2].call
    /\ tasks[1].expires_at # tasks[2].expires_at
    /\ \E s \in signatures :
          /\ s.target_id = tasks[1].call.target /\ s.signer_id = tasks[1].call.actor
          /\ s.type = tasks[1].call.type
          /\ s.expires_at \in {tasks[1].expires_at, tasks[2].expires_at}

\* C5 (P4, roster lock monotonicity): a step from a state in which
\* is_roster_locked is true leads to a state in which it is true, unless the
\* step is reset_game.
C5_LockMonotone ==
    [][is_roster_locked(state, G1) => (is_roster_locked(state', G1) \/ ResetGame(G1))]_vars
\* the roster is locked and the guild's state table has been written since
C5_Witness ==
    /\ is_roster_locked(state, G1)
    /\ res.call.op = "set_channel"

\* C6 (P6, idempotent leave): after a successful leave_game(u), a second
\* leave_game(u) fails with NotInGame and changes no table.
C6_IdempotentLeave ==
    res.call.op = "leave" =>
        LET out == leave_game(players, signatures, claims, state, G1, res.call.actor)
        IN /\ out.result = ActionResult(FALSE, "NotInGame")
           /\ out.players = players
           /\ out.signatures = signatures
           /\ out.claims = claims
           /\ out.state = state
\* a player with doom has just left while signatures are in the store
C6_Witness ==
    /\ res.call.op = "leave"
    /\ Row(res.call.actor).doom > 0
    /\ signatures # {}

\* C7 (rejoin regardless of lock): join_game by a user whose record is inactive
\* succeeds, and RosterLocked is returned only to users without a record.
C7_RejoinAllowed ==
    \A u \in Users :
        LET out == join_game(players, signatures, claims, state, G1, u, now) IN
        /\ (has_player(players, u, G1) /\ ~is_active(players, u, G1))
               => out.result.success
        /\ out.result.message = "RosterLocked" => ~has_player(players, u, G1)

\* C8 (RosterLocked): from a state with the roster locked, join_game by a user
\* without a record fails with RosterLocked and changes nothing, and no step
\* adds a player record.
C8_LockedNoNewPlayers ==
    [][is_roster_locked(state, G1) =>
          /\ DOMAIN players' \subseteq DOMAIN players
          /\ \A u \in Users :
                ~has_player(players, u, G1) =>
                    LET out == join_game(players, signatures, claims, state, G1, u, now)
                    IN /\ out.result = ActionResult(FALSE, "RosterLocked")
                       /\ out.players = players]_vars
\* the roster is locked, a user has no record, and a call has succeeded since
C8_Witness ==
    /\ is_roster_locked(state, G1)
    /\ \E u \in Users : ~has_player(players, u, G1)
    /\ res.call.op \in {"leave", "mend", "shield", "claim"}

\* C9 (join): join_game by an active user fails with AlreadyJoined and changes
\* nothing; a join that succeeds leaves the user active with doom 0, no veil
\* and no last action day, and a record that existed keeps its joined_at.
C9_Join ==
    \A u \in Users :
        LET out == join_game(players, signatures, claims, state, G1, u, now) IN
        /\ is_active(players, u, G1) =>
              /\ out.result = ActionResult(FALSE, "AlreadyJoined")
              /\ out.players = players /\ out.signatures = signatures
              /\ out.claims = claims /\ out.state = state
        /\ out.result.success =>
              /\ has_player(out.players, u, G1)
              /\ LET p == get_player(out.players, u, G1) IN
                 /\ p.active = 1 /\ p.doom = 0
                 /\ p.veil_until = None /\ p.last_action_day = None
                 /\ has_player(players, u, G1) =>
                        p.joined_at = get_player(players, u, G1).joined_at
                 /\ ~has_player(players, u, G1) => p.joined_at = now
\* a record created earlier has just been reactivated
C9_Witness ==
    /\ res.call.op = "join"
    /\ Row(res.call.actor).joined_at < now
    /\ Row(res.call.actor).doom = 0
    /\ Row(res.call.actor).active = 1

\* C10 (hex damage): for a successful hex in which Reflex Shield does not fire,
\* with n live hex signatures on the target before it, the damage is 1 + n,
\* halved and rounded down if the target's veil_until is in the future, and
\* the target's stored doom grows by exactly that damage.
C10_HexDamage ==
    \A a, t \in Users4, bypass \in BOOLEAN :
        LET out == hex_target(players, signatures, claims, state, G1, a, t, bypass, now)
            n == Cardinality(LiveSignatures(t, "hex", G1))
            veiled == Row(t).veil_until # None /\ Row(t).veil_until > now
            final == IF veiled THEN (1 + n) \div 2 ELSE 1 + n
        IN (out.result.success /\ ~out.result.reflex_shield_triggered) =>
              /\ out.result.doom_change = final
              /\ out.result.new_doom = Row(t).doom + final
              /\ get_player(out.players, t, G1).doom = Row(t).doom + final
\* a veiled target with two hex signatures on it has just been hexed for 1
C10_Witness ==
    /\ res.call.op = "hex"
    /\ ~res.result.reflex_shield_triggered
    /\ res.result.doom_change = 1
    /\ Row(res.call.target).veil_until > now
    /\ Cardinality(LiveSignatures(res.call.target, "hex", G1)) = 3

\* C11 (Reflex Shield): a successful hex reports reflex_shield_triggered exactly
\* when the target's doom plus the raw damage 1 + n reaches THRESHOLD and the
\* target's last_action_day is not today; when it fires the damage is
\* floor((1 + n) / 2), the target's stored doom is
\* max(0, doom - SHIELD_CLEANSE) + floor((1 + n) / 2), its veil_until is now +
\* SIGNATURE_TTL_HOURS and its last_action_day is today; from doom 11 with an
\* empty train the target ends at 9 and is not eliminated.
C11_ReflexShield ==
    \A a, t \in Users4, bypass \in BOOLEAN :
        LET out == hex_target(players, signatures, claims, state, G1, a, t, bypass, now)
            n == Cardinality(LiveSignatures(t, "hex", G1))
            doom == Row(t).doom
            cleansed == IF doom - SHIELD_CLEANSE >= 0 THEN doom - SHIELD_CLEANSE ELSE 0
            after == get_player(out.players, t, G1)
        IN out.result.success =>
              /\ out.result.reflex_shield_triggered <=>
                    (doom + 1 + n >= THRESHOLD /\ Row(t).last_action_day # today_key(now))
              /\ out.result.reflex_shield_triggered =>
                    /\ out.result.doom_change = (1 + n) \div 2
                    /\ out.result.new_doom = cleansed + (1 + n) \div 2
                    /\ after.doom = cleansed + (1 + n) \div 2
                    /\ after.veil_until = now + SIGNATURE_TTL_HOURS \div TickHours
                    /\ after.last_action_day = today_key(now)
                    /\ (doom = 11 /\ n = 0) =>
                          (after.doom = 9 /\ after.active = 1 /\ ~out.result.eliminated)
\* a hex on a target at doom 11 has just fired the Reflex Shield: the target is
\* at 9, veiled for a day, marked as having acted, and still in the game
C11_Witness ==
    /\ res.call.op = "hex"
    /\ res.result.reflex_shield_triggered
    /\ res.result.doom_change = 0
    /\ Row(res.call.target).doom = 9
    /\ Row(res.call.target).veil_until = now + SIGNATURE_TTL_HOURS \div TickHours
    /\ Row(res.call.target).last_action_day = today_key(now)
    /\ Row(res.call.target).active = 1

\* what a reader of the guild's state can tell two outcomes apart by: the
\* player rows, the guild-state rows, and the signatures and claims still live
SameLogicalState(out) ==
    /\ out.players = players
    /\ out.state = state
    /\ Live(out.signatures) = Live(signatures)
    /\ Live(out.claims) = Live(claims)
\* C12 (failures do not mutate): every join, leave, hex, mend, shield, claim or
\* unclaim that returns success = false leaves every player row, every
\* guild-state row, every live signature and every live claim as it was.
C12_FailureNonMutating ==
    /\ \A u \in Users :
          \A out \in {join_game(players, signatures, claims, state, G1, u, now),
                      leave_game(players, signatures, claims, state, G1, u)} :
             ~out.result.success => SameLogicalState(out)
    /\ \A u \in Users, b \in BOOLEAN :
          \A out \in {shield_self(players, signatures, claims, state, G1, u, b, now)} :
             ~out.result.success => SameLogicalState(out)
    /\ \A a, t \in Users, b \in BOOLEAN :
          \A out \in {hex_target(players, signatures, claims, state, G1, a, t, b, now),
                      mend_target(players, signatures, claims, state, G1, a, t, b, now)} :
             ~out.result.success => SameLogicalState(out)
    /\ \A c, t \in Users, type \in Types :
          \A out \in {claim_signature(players, signatures, claims, state, G1,
                                      c, t, type, now),
                      unclaim_signature(players, signatures, claims, state, G1,
                                        c, t, type, now)} :
             ~out.result.success => SameLogicalState(out)
\* a claim on a train whose only signature has expired fails with
\* NoActiveTrain, and the purge of its read deletes the expired row
C12_Witness ==
    \E c, t \in Users :
        LET out == claim_signature(players, signatures, claims, state, G1, c, t, "hex", now)
        IN /\ out.result = ActionResult(FALSE, "NoActiveTrain")
           /\ out.signatures # signatures
           /\ res.call.op = "tick"

\* signer holds a live signature of the type on target
Holds(signer, target, type) ==
    \E s \in LiveSignatures(target, type, G1) : s.signer_id = signer
\* the outcome of the hex (type hex) or mend (type mend) of a on t
Cast(type, a, t, bypass) ==
    IF type = "hex"
    THEN hex_target(players, signatures, claims, state, G1, a, t, bypass, now)
    ELSE mend_target(players, signatures, claims, state, G1, a, t, bypass, now)
\* what else the engine asks of the call: both players active, the signer not
\* having acted today unless the limit is bypassed, a hex not on oneself
MayCast(type, a, t, bypass) ==
    /\ is_active(players, a, G1) /\ is_active(players, t, G1)
    /\ bypass \/ Row(a).last_action_day # today_key(now)
    /\ type = "hex" => a # t

\* C13 as stated: while signer a holds a live signature of a type on t, every
\* hex_target / mend_target of a on t fails with DuplicateSignature, with and
\* without bypass_daily_limit; when a holds none (24 hours have passed since
\* it was written) the action is accepted, the engine's other checks passing.
C13_DuplicateBlocks ==
    \A type \in Types, a, t \in Users, bypass \in BOOLEAN :
        /\ Holds(a, t, type) =>
              Cast(type, a, t, bypass).result = ActionResult(FALSE, "DuplicateSignature")
        /\ (~Holds(a, t, type) /\ MayCast(type, a, t, bypass))
              => Cast(type, a, t, bypass).result.success
\* C13 as amended: while a holds a live signature of a type on t, every
\* hex_target / mend_target of a on t fails, and it fails with
\* DuplicateSignature whenever the checks that come first pass (both active,
\* and a later calendar day or bypass_daily_limit = true); once the signature
\* is no longer live, 24 hours after it was written (a hex or mend that has
\* just returned leaves its signature expiring SIGNATURE_TTL_HOURS from now),
\* the action is accepted whenever those checks pass.
C13_DuplicateBlocksAmended ==
    \A type \in Types, a, t \in Users, bypass \in BOOLEAN :
        LET out == Cast(type, a, t, bypass) IN
        /\ Holds(a, t, type) => ~out.result.success
        /\ (Holds(a, t, type) /\ MayCast(type, a, t, bypass))
              => out.result = ActionResult(FALSE, "DuplicateSignature")
        /\ (~Holds(a, t, type) /\ MayCast(type, a, t, bypass)) => out.result.success
        /\ (res.call.op = type /\ res.call.actor = a /\ res.call.target = t) =>
              \E s \in signatures :
                 /\ s.signer_id = a /\ s.target_id = t /\ s.type = type
                 /\ s.expires_at = now + SIGNATURE_TTL_HOURS \div TickHours
\* on the calendar day after a hex, the signature still live, the same hex
\* without bypass fails with DuplicateSignature; an expired mend signature of
\* another pair is still in the table
C13_Witness ==
    \E a, t \in Users :
        /\ Holds(a, t, "hex")
        /\ \E s \in LiveSignatures(t, "hex", G1) :
              s.signer_id = a
              /\ today_key(s.expires_at - SIGNATURE_TTL_HOURS \div TickHours) < today_key(now)
        /\ hex_target(players, signatures, claims, state, G1, a, t, FALSE, now).result
              = ActionResult(FALSE, "DuplicateSignature")
        /\ res.call.op = "tick"

\* this step is a hex that returned eliminated = true
EliminatingHex ==
    /\ ops' = ops + 1
    /\ res'.call.op = "hex"
    /\ res'.result.eliminated
\* this step is a reset_game
ResetStep == ops' = ops + 1 /\ res'.call.op = "reset"

\* C14 (elimination locks the roster): a hex that brings the target's doom to
\* THRESHOLD or more returns eliminated = true, stores the target inactive and
\* leaves the roster locked; the roster becomes locked only by such a hex and
\* unlocked only by a reset, so that it is locked exactly when a player of the
\* guild has been eliminated since the last reset (the eliminated rows, which
\* nothing but a reset removes or revives while the roster is locked, are the
\* rows with doom >= THRESHOLD).
C14_LockOnElimination ==
    /\ [](/\ res.call.op = "hex" =>
               LET target == Row(res.call.target) IN
               /\ res.result.new_doom >= THRESHOLD <=> res.result.eliminated
               /\ res.result.eliminated => (target.active = 0 /\ is_roster_locked(state, G1))
          /\ is_roster_locked(state, G1)
               <=> \E k \in DOMAIN players : k[2] = G1 /\ players[k].doom >= THRESHOLD)
    /\ [][/\ EliminatingHex => is_roster_locked(state', G1)
          /\ (~is_roster_locked(state, G1) /\ is_roster_locked(state', G1))
                => EliminatingHex
          /\ (is_roster_locked(state, G1) /\ ~is_roster_locked(state', G1))
                => ResetStep]_vars
\* a player has left, and then a hex has eliminated another and locked the roster
C14_Witness ==
    /\ res.call.op = "hex"
    /\ res.result.eliminated
    /\ is_roster_locked(state, G1)
    /\ \E u \in Users : u # res.call.target /\ has_player(players, u, G1)
                        /\ Row(u).active = 0 /\ Row(u).doom < THRESHOLD

\* the users whose row is active
ActiveUsers == {u \in Users : has_player(players, u, G1) /\ Row(u).active = 1}

\* C15 (game end): check_game_end returns the one active player when exactly
\* one player of the guild is active and none when zero or two or more are;
\* the winner_id a hex returns is that value for the roster the hex leaves, so
\* with three active players the first eliminating hex returns none and the
\* second the survivor.
C15_GameEnd ==
    LET winner == check_game_end(players, G1) IN
    /\ Cardinality(ActiveUsers) = 1 => ActiveUsers = {winner}
    /\ Cardinality(ActiveUsers) # 1 => winner = NoUser
    /\ res.call.op = "hex" =>
          /\ res.result.winner_id = winner
          /\ Cardinality(ActiveUsers) >= 2 => res.result.winner_id = NoUser
          /\ (res.result.eliminated /\ Cardinality(ActiveUsers) = 1)
                => res.result.winner_id = res.call.actor
\* two of three players have been eliminated by hexes, and the second hex
\* named the survivor, its caster, the winner
C15_Witness ==
    /\ res.call.op = "hex"
    /\ res.result.eliminated
    /\ res.result.winner_id = res.call.actor
    /\ Cardinality({u \in Users : Row(u).doom >= THRESHOLD /\ Row(u).active = 0}) = 2

\* this step is a mend_target that succeeded
MendStepDone == ops' = ops + 1 /\ res'.call.op = "mend"

\* C16 (mend healing): after every successful mend_target(actor, target), the
\* actor being the target or not, the target's stored doom is
\* max(0, doom before - (1 + live mend signatures on the target before)) and
\* is the new_doom the result reports.
C16_MendHealing ==
    [][MendStepDone =>
          LET t == res'.call.target
              n == Cardinality(LiveSignatures(t, "mend", G1))
              healed == IF Row(t).doom - (1 + n) >= 0 THEN Row(t).doom - (1 + n) ELSE 0
          IN /\ players'[<<t, G1>>].doom = healed
             /\ players'[<<t, G1>>].doom = res'.result.new_doom]_vars

\* C17 (self-mend): mend_target with actor = target is not rejected as a
\* self-target: for an active actor who has not acted today (or bypasses the
\* limit) and holds no live mend signature on themselves it succeeds, stores
\* last_action_day = today for the actor and leaves a mend signature of the
\* actor on themselves, expiring SIGNATURE_TTL_HOURS from now.
C17_SelfMend ==
    \A a \in Users, bypass \in BOOLEAN :
        LET out == mend_target(players, signatures, claims, state, G1, a, a, bypass, now)
        IN /\ out.result.message # "SelfTarget"
           /\ (/\ is_active(players, a, G1)
               /\ bypass \/ Row(a).last_action_day # today_key(now)
               /\ ~Holds(a, a, "mend"))
                 => /\ out.result.success
                    /\ get_player(out.players, a, G1).last_action_day = today_key(now)
                    /\ Signature(a, a, G1, "mend", now + SIGNATURE_TTL_HOURS \div TickHours)
                          \in out.signatures
\* a player has just mended themselves: marked as having acted, and holding a
\* mend signature on themselves
C17_Witness ==
    /\ res.call.op = "mend"
    /\ res.call.actor = res.call.target
    /\ Row(res.call.actor).last_action_day = today_key(now)
    /\ Holds(res.call.actor, res.call.actor, "mend")

\* C18 (shield): shield_self fails for a user who is not active and for one
\* who already acted today, and succeeds otherwise; on success the user's doom
\* is max(0, doom - SHIELD_CLEANSE), veil_until is now + SIGNATURE_TTL_HOURS,
\* last_action_day is today, and no signature, no claim, no guild-state row
\* and no other player's row is created or changed.
C18_Shield ==
    \A u \in Users, bypass \in BOOLEAN :
        LET out == shield_self(players, signatures, claims, state, G1, u, bypass, now)
            may == is_active(players, u, G1)
                   /\ (bypass \/ Row(u).last_action_day # today_key(now))
        IN /\ out.result.success <=> may
           /\ ~is_active(players, u, G1) => out.result.message = "NotInGame"
           /\ (is_active(players, u, G1) /\ ~may)
                 => out.result.message = "AlreadyActedToday"
           /\ out.result.success =>
                 LET after == get_player(out.players, u, G1)
                     cleansed == IF Row(u).doom >= SHIELD_CLEANSE
                                 THEN Row(u).doom - SHIELD_CLEANSE ELSE 0
                 IN /\ after = [Row(u) EXCEPT
                                   !.doom = cleansed,
                                   !.veil_until = now + SIGNATURE_TTL_HOURS \div TickHours,
                                   !.last_action_day = today_key(now)]
                    /\ out.result.new_doom = cleansed
                    /\ DOMAIN out.players = DOMAIN players
                    /\ \A k \in DOMAIN players : k # <<u, G1>> => out.players[k] = players[k]
                    /\ out.signatures = signatures
                    /\ out.claims = claims
                    /\ out.state = state
\* a player at doom 1 has just shielded in a game with a signature and a
\* claim in the store: doom 0, veiled for a day, marked as having acted
C18_Witness ==
    /\ res.call.op = "shield"
    /\ res.result.doom_change = -1
    /\ Row(res.call.actor).doom = 0
    /\ Row(res.call.actor).veil_until = now + SIGNATURE_TTL_HOURS \div TickHours
    /\ Row(res.call.actor).last_action_day = today_key(now)
    /\ signatures # {}
    /\ claims # {}

\* C19 (claim failures), the conditions read in the order given: for an active
\* claimant on an active target, claim_signature fails with NoActiveTrain when
\* the target has no live signature of the type, else with TrainFull when the
\* live claims of the type on the target equal the live signatures in number,
\* else with AlreadyClaimed when the claimant holds a live claim on it, and
\* otherwise succeeds and adds exactly one claim, of the claimant, whether the
\* claimant is one of the signers or not.
C19_ClaimFailures ==
    \A c, t \in Users, type \in Types :
        LET out == claim_signature(players, signatures, claims, state, G1, c, t, type, now)
            nS == Cardinality(LiveSignatures(t, type, G1))
            nC == Cardinality(LiveClaims(t, type, G1))
            mine == \E claim \in LiveClaims(t, type, G1) : claim.claimant_id = c
        IN (is_active(players, c, G1) /\ is_active(players, t, G1)) =>
              /\ nS = 0 => out.result = ActionResult(FALSE, "NoActiveTrain")
              /\ (nS > 0 /\ nC = nS) => out.result = ActionResult(FALSE, "TrainFull")
              /\ (nS > 0 /\ nC # nS /\ mine)
                    => out.result = ActionResult(FALSE, "AlreadyClaimed")
              /\ (nS > 0 /\ nC # nS /\ ~mine) =>
                    /\ out.result.success
                    /\ Live(claims) \subseteq Live(out.claims)
                    /\ \E claim \in Live(out.claims) :
                          /\ Live(out.claims) \ Live(claims) = {claim}
                          /\ claim.claimant_id = c /\ claim.target_id = t
                          /\ claim.type = type

\* C20 (claim expiry): a claim row appears only by a claim_signature that
\* succeeds, and its expires_at is the least expires_at among the signatures
\* of its type live on its target at that moment; the row is never rewritten,
\* so the claim is live no longer than the oldest of those signatures.
C20_ClaimExpiry ==
    [][\A c \in claims' \ claims :
          LET sigs == LiveSignatures(c.target_id, c.type, G1) IN
          /\ ops' = ops + 1
          /\ res'.call.op = "claim"
          /\ res'.call.actor = c.claimant_id
          /\ \E s \in sigs : s.expires_at = c.expires_at
          /\ \A s \in sigs : c.expires_at <= s.expires_at]_vars
\* a claim has just been made on a train of two signatures written six hours
\* apart: it expires with the older one
C20_Witness ==
    /\ res.call.op = "claim"
    /\ \E c \in LiveClaims(res.call.target, res.call.type, G1) :
          /\ c.claimant_id = res.call.actor
          /\ \E s1, s2 \in LiveSignatures(res.call.target, res.call.type, G1) :
                /\ s1.expires_at = c.expires_at
                /\ s2.expires_at > c.expires_at

\* the live claims c holds on (t, type)
MyClaims(c, t, type) == {claim \in LiveClaims(t, type, G1) : claim.claimant_id = c}

\* C21 as stated: unclaim_signature of an active claimant on an active target
\* fails with NoClaim when the claimant holds no live claim on (target, type);
\* in every state where the claimant holds a live claim on (target, type) it
\* succeeds and removes exactly that claim, every other live claim and every
\* live signature staying.
C21_Unclaim ==
    \A c, t \in Users, type \in Types :
        LET out == unclaim_signature(players, signatures, claims, state, G1, c, t, type, now)
        IN /\ (MyClaims(c, t, type) = {} /\ is_active(players, c, G1)
                  /\ is_active(players, t, G1))
                 => out.result = ActionResult(FALSE, "NoClaim")
           /\ MyClaims(c, t, type) # {} =>
                 /\ out.result.success
                 /\ Live(out.claims) = Live(claims) \ MyClaims(c, t, type)
                 /\ Live(out.signatures) = Live(signatures)
\* C21 as amended: the same for an active claimant on an active target; an
\* inactive claimant gets NotInGame and an inactive target TargetNotInGame,
\* whatever claims are held, and nothing is removed.
C21_UnclaimAmended ==
    \A c, t \in Users, type \in Types :
        LET out == unclaim_signature(players, signatures, claims, state, G1, c, t, type, now)
            mine == MyClaims(c, t, type)
        IN /\ ~is_active(players, c, G1) => out.result = ActionResult(FALSE, "NotInGame")
           /\ (is_active(players, c, G1) /\ ~is_active(players, t, G1))
                 => out.result = ActionResult(FALSE, "TargetNotInGame")
           /\ ~out.result.success => SameLogicalState(out)
           /\ (is_active(players, c, G1) /\ is_active(players, t, G1)) =>
                 /\ mine = {} => out.result = ActionResult(FALSE, "NoClaim")
                 /\ mine # {} =>
                       /\ out.result.success
                       /\ Cardinality(mine) = 1
                       /\ Live(out.claims) = Live(claims) \ mine
                       /\ Live(out.signatures) = Live(signatures)
                       /\ out.players = players
                       /\ out.state = state
\* one of two claims on a train has just been dropped: the other one stays
C21_Witness ==
    /\ res.call.op = "unclaim"
    /\ MyClaims(res.call.actor, res.call.target, res.call.type) = {}
    /\ Cardinality(LiveClaims(res.call.target, res.call.type, G1)) = 1
    /\ Cardinality(LiveSignatures(res.call.target, res.call.type, G1)) = 2

\* this step is a leave_game that succeeded
LeaveStepDone == ops' = ops + 1 /\ res'.call.op = "leave"

\* C22 (leave, frame): a successful leave_game(user) sets the user's active to
\* 0, deletes the signatures whose signer is the user and the claims whose
\* claimant is the user, and changes nothing else: every other field of the
\* user's row, every other player's row, every signature and claim of another
\* signer or claimant (those on the user as target among them) and the guild
\* state, the roster lock with it, are as before.
C22_LeaveFrame ==
    [][LeaveStepDone =>
          LET u == res'.call.actor IN
          /\ players[<<u, G1>>].active = 1
          /\ players' = [players EXCEPT ![<<u, G1>>].active = 0]
          /\ signatures' = {s \in signatures : s.signer_id # u}
          /\ claims' = {c \in claims : c.claimant_id # u}
          /\ state' = state
          /\ is_roster_locked(state', G1) <=> is_roster_locked(state, G1)]_vars
\* a player with doom has just left: the signature and the claim another
\* player placed on them are still there, their own are gone
C22_Witness ==
    /\ res.call.op = "leave"
    /\ Row(res.call.actor).active = 0
    /\ Row(res.call.actor).doom > 0
    /\ \E s \in signatures : s.target_id = res.call.actor
    /\ \E c \in claims : c.target_id = res.call.actor
    /\ \A s \in signatures : s.signer_id # res.call.actor

\* hours since the creation of a signature, SIGNATURE_TTL_HOURS before it expires
AgeHours(s) == (now - s.expires_at) * TickHours + SIGNATURE_TTL_HOURS
\* the label of an age: [0,6) Fresh, [6,18) Warm, [18,24) Cooling
LabelOf(hours) ==
    IF 0 <= hours /\ hours < 6 THEN "Fresh"
    ELSE IF 6 <= hours /\ hours < 18 THEN "Warm"
    ELSE IF 18 <= hours /\ hours < 24 THEN "Cooling"
    ELSE "Expired"

\* C23 (train status): get_train_status(target, type) returns the number of
\* live signatures of the type on the target and, when there is one, the
\* label of the age of the oldest of them, also when their ages differ.
C23_TrainStatus ==
    \A t \in Users, type \in Types :
        LET status == get_train_status(purge_expired_signatures(signatures, G1, now),
                                       t, type, G1, now)
            live == LiveSignatures(t, type, G1)
        IN /\ status.count = Cardinality(live)
           /\ live # {} =>
                 \E oldest \in live :
                    /\ \A s \in live : AgeHours(s) <= AgeHours(oldest)
                    /\ status.freshness = LabelOf(AgeHours(oldest))

\* the tables with the expired rows of the guild taken out
Unexpired(rows) == {r \in rows : r.guild_id = G1 => r.expires_at > now}
\* the outcome is the one the call has on tables that hold no expired row
AsOnLive(out, onlive) ==
    /\ out.result = onlive.result
    /\ out.players = onlive.players
    /\ out.state = onlive.state
    /\ Live(out.signatures) = Live(onlive.signatures)
    /\ Live(out.claims) = Live(onlive.claims)
HexDone(i) ==
    /\ tasks[i].pc = "done" /\ tasks[i].call.op = "hex"
    /\ tasks[i].result.success /\ ~tasks[i].result.reflex_shield_triggered
\* the doom the hex of task i read from the target's record
ReadDoom(i) == tasks[i].result.new_doom - tasks[i].result.doom_change
\* two hexes by different actors on one target have both returned success
TwoHexesDone(i, j) ==
    /\ i # j /\ HexDone(i) /\ HexDone(j)
    /\ tasks[i].call.target = tasks[j].call.target
    /\ tasks[i].call.actor # tasks[j].call.actor
\* C25 (lost update on doom): two concurrent hex_target calls by different
\* actors on the same target can both read the target's record before either
\* writes it and both return success; whenever they do (each doing damage of
\* 1 or more), the target's stored doom is the doom read plus the damage of
\* one of them only; when one read what the other wrote, both damages are in.
C25_LostUpdate ==
    \A i, j \in TaskIds :
        TwoHexesDone(i, j) =>
            LET ri == tasks[i].result
                rj == tasks[j].result
                stored == Row(tasks[i].call.target).doom
            IN /\ ri.doom_change >= 1 /\ rj.doom_change >= 1
               /\ ReadDoom(i) = ReadDoom(j) =>
                     /\ stored \in {ri.new_doom, rj.new_doom}
                     /\ stored < ReadDoom(i) + ri.doom_change + rj.doom_change
               /\ ReadDoom(i) # ReadDoom(j) =>
                     stored = Min({ReadDoom(i), ReadDoom(j)}) + ri.doom_change + rj.doom_change
\* both hexes read doom 0, both returned success, and the stored doom holds
\* the damage of one
C25_Witness ==
    \E i, j \in TaskIds :
        /\ TwoHexesDone(i, j)
        /\ ReadDoom(i) = ReadDoom(j)
        /\ Row(tasks[i].call.target).doom < ReadDoom(i) + tasks[i].result.doom_change
                                                        + tasks[j].result.doom_change

\* ---------------------------------------------------------------------------
\* join_game and claim_signature, one store call at a time
\* ---------------------------------------------------------------------------

\* the store call raised: the INSERT met a row with its primary key
\* (sqlite3.IntegrityError), which no engine code catches
Raised == ActionResult(FALSE, "IntegrityError")
\* players: PRIMARY KEY(user_id, guild_id)
create_player_conflict(P, u, g) == has_player(P, u, g)
\* claims: PRIMARY KEY(target_id, guild_id, type, claimant_id)
add_claim_conflict(C, claim) ==
    \E c \in C : /\ c.target_id = claim.target_id /\ c.guild_id = claim.guild_id
                 /\ c.type = claim.type /\ c.claimant_id = claim.claimant_id

join_step(task, P, S, C, St, t) ==
    LET g == task.call.guild_id
        user_id == task.call.actor
    IN
    CASE task.pc = "get_actor" ->
           LET existing == get_player_or_none(P, user_id, g) IN
           IF existing # NoPlayer /\ existing.active # 0
           THEN Stepped(Done(task, ActionResult(FALSE, "AlreadyJoined")), P, S, C, St)
           ELSE Stepped([task EXCEPT !.actor = existing, !.pc = "is_roster_locked"],
                        P, S, C, St)
      [] task.pc = "is_roster_locked" ->
           LET can == can_join_game(St, g) IN
           IF ~can.ok
           THEN Stepped(Done(task, ActionResult(FALSE, can.reason)), P, S, C, St)
           ELSE IF task.actor # NoPlayer
           THEN Stepped([task EXCEPT !.actor = reactivated(@), !.pc = "update_actor"],
                        P, S, C, St)
           ELSE Stepped([task EXCEPT !.pc = "create_player"], P, S, C, St)
      [] task.pc = "update_actor" ->
           Stepped(Done(task, ActionResult(TRUE, "Joined")),
                   update_player(P, task.actor), S, C, St)
      [] task.pc = "create_player" ->
           IF create_player_conflict(P, user_id, g)
           THEN Stepped(Done(task, Raised), P, S, C, St)
           ELSE Stepped(Done(task, ActionResult(TRUE, "Joined")),
                        create_player(P, user_id, g, t), S, C, St)

claim_step(task, P, S, C, St, t) ==
    LET g == task.call.guild_id
        claimant_id == task.call.actor
        target_id == task.call.target
        claim_type == task.call.type
        S1 == purge_expired_signatures(S, g, t)
        C1 == purge_expired_claims(C, g, t)
    IN
    CASE task.pc = "get_actor" ->
           Stepped([task EXCEPT !.actor = get_player_or_none(P, claimant_id, g),
                                !.pc = "get_target"], P, S, C, St)
      [] task.pc = "get_target" ->
           LET target == get_player_or_none(P, target_id, g) IN
           IF not_in_game(task.actor)
           THEN Stepped(Done(task, ActionResult(FALSE, "NotInGame")), P, S, C, St)
           ELSE IF not_in_game(target)
           THEN Stepped(Done(task, ActionResult(FALSE, "TargetNotInGame")), P, S, C, St)
           ELSE Stepped([task EXCEPT !.target = target, !.pc = "get_signatures"],
                        P, S, C, St)
      [] task.pc = "get_signatures" ->
           Stepped([task EXCEPT !.signatures = get_signatures(S1, target_id, claim_type, g),
                                !.pc = "get_claims"], P, S1, C1, St)
      [] task.pc = "get_claims" ->
           LET current_claims == get_claims(C1, target_id, claim_type, g)
               signature_count == Cardinality(task.signatures)
               claim_count == Cardinality(current_claims)
           IN
           IF signature_count = 0
           THEN Stepped(Done(task, ActionResult(FALSE, "NoActiveTrain")), P, S1, C1, St)
           ELSE IF claim_count >= signature_count
           THEN Stepped(Done(task, ActionResult(FALSE, "TrainFull")), P, S1, C1, St)
           ELSE IF \E claim \in current_claims : claim.claimant_id = claimant_id
           THEN Stepped(Done(task, ActionResult(FALSE, "AlreadyClaimed")), P, S1, C1, St)
           ELSE Stepped([task EXCEPT
                           !.current_claims = current_claims,
                           !.expires_at = Min({sig.expires_at : sig \in task.signatures}),
                           !.pc = "add_claim"], P, S1, C1, St)
      [] task.pc = "add_claim" ->
           LET claim == Claim(target_id, g, claim_type, claimant_id, task.expires_at) IN
           IF add_claim_conflict(C, claim)
           THEN Stepped(Done(task, Raised), P, S, C, St)
           ELSE Stepped(Done(task, ActionResult(TRUE, "Claimed")),
                        P, S, add_claim(C, claim), St)

StartJoin(i, g, u) ==
    /\ Free(i)
    /\ tasks' = [tasks EXCEPT ![i] = [@ EXCEPT !.call = Call("join", g, u, NoUser, "", FALSE),
                                               !.pc = "get_actor"]]
    /\ UNCHANGED <<players, signatures, claims, state, now, res, acted, ops>>

StartClaim(i, g, c, t, type) ==
    /\ Free(i)
    /\ tasks' = [tasks EXCEPT ![i] = [@ EXCEPT !.call = Call("claim", g, c, t, type, FALSE),
                                               !.pc = "get_actor"]]
    /\ UNCHANGED <<players, signatures, claims, state, now, res, acted, ops>>

JoinStep(i) ==
    /\ tasks[i].pc \notin {"idle", "done"}
    /\ tasks[i].call.op = "join"
    /\ Step(i, join_step(tasks[i], players, signatures, claims, state, now))

ClaimStep(i) ==
    /\ tasks[i].pc \notin {"idle", "done"}
    /\ tasks[i].call.op = "claim"
    /\ Step(i, claim_step(tasks[i], players, signatures, claims, state, now))

\* u1 and u2 play and u3 has no record or has left; u2 has hexed u1; two
\* joins or claims in flight at most.
InitRace ==
    /\ \E P3 \in {<<>>, <<"u3", G1>> :> Player("u3", G1, 0, 2, None, None, 0)} :
          players = P3 @@ [k \in {<<u, G1>> : u \in {"u1", "u2"}} |->
                              IF k[1] = "u1" THEN Player(k[1], G1, 0, 1, None, None, 1)
                              ELSE Player(k[1], G1, 0, 0, None, today_key(0), 1)]
    /\ signatures = {Signature("u1", "u2", G1, "hex", timestamp_from_hours(0, TTL))}
    /\ claims = {}
    /\ state = {}
    /\ now = 0
    /\ res = Returned(Call("hex", G1, "u2", "u1", "hex", FALSE),
                      ActionResultDoom("Hex", 1, 1, FALSE, FALSE, NoUser))
    /\ acted = [today |-> {<<"u2", G1>>}, twice |-> {}, reflex |-> {}, reflex_twice |-> {}]
    /\ ops = 0
    /\ tasks = [i \in TaskIds |-> Idle]

NextRace ==
    \/ \E i \in TaskIds, u \in Users : StartJoin(i, G1, u)
    \/ \E i \in TaskIds, c, t \in Users, type \in Types : StartClaim(i, G1, c, t, type)
    \/ \E i \in TaskIds : JoinStep(i)
    \/ \E i \in TaskIds : ClaimStep(i)
    \/ TickBetween

SpecRace == InitRace /\ [][NextRace]_vars

\* C26 (no unhandled store error): under every interleaving of concurrent
\* engine calls each call ends by returning a result, success or a tagged
\* failure, and never by a store error raised to the caller; two concurrent
\* join_game calls by one new user, or two concurrent claim_signature calls by
\* one claimant on one train, end in no primary-key conflict.
C26_NoUnhandledError ==
    \A i \in TaskIds : tasks[i].pc = "done" => tasks[i].result # Raised

\* ---------------------------------------------------------------------------
\* Two guilds in one database file
\* ---------------------------------------------------------------------------
Users2 == {"u1", "u2"}
\* The same two users play in both guilds; in each u2 has hexed u1, u2 has
\* claimed the hex and a public channel is set.
InitGuilds ==
    /\ players = [k \in Users2 \X Guilds |->
                     IF k[1] = "u1" THEN Player(k[1], k[2], 0, 1, None, None, 1)
                     ELSE Player(k[1], k[2], 0, 0, None, today_key(0), 1)]
    /\ signatures = {Signature("u1", "u2", g, "hex", timestamp_from_hours(0, TTL)) : g \in Guilds}
    /\ claims = {Claim("u1", g, "hex", "u2", timestamp_from_hours(0, TTL)) : g \in Guilds}
    /\ state = {StateRow(g, "public_channel", "c1") : g \in Guilds}
    /\ now = 0
    /\ res = Returned(Call("claim", G1, "u2", "u1", "hex", FALSE), ActionResult(TRUE, "Claimed"))
    /\ acted = [today |-> {<<"u2", g>> : g \in Guilds}, twice |-> {}, reflex |-> {}, reflex_twice |-> {}]
    /\ ops = 0
    /\ tasks = [i \in TaskIds |-> Idle]

NextGuilds ==
    \/ \E g \in Guilds, u \in Users2 : JoinGame(g, u)
    \/ \E g \in Guilds, u \in Users2 : LeaveGame(g, u)
    \/ \E g \in Guilds, a, t \in Users2 : HexTarget(g, a, t, FALSE)
    \/ \E g \in Guilds, a, t \in Users2 : MendTarget(g, a, t, FALSE)
    \/ \E g \in Guilds, u \in Users2 : ShieldSelf(g, u, FALSE)
    \/ \E g \in Guilds, c, t \in Users2, type \in Types : ClaimSignature(g, c, t, type)
    \/ \E g \in Guilds, c, t \in Users2, type \in Types : UnclaimSignature(g, c, t, type)
    \/ \E g \in Guilds : ResetGame(g)
    \/ \E d \in {1, TicksPerDay} : Tick(d)

SpecGuilds == InitGuilds /\ [][NextGuilds]_vars

\* the rows of the guilds other than g
OtherPlayers(P, g) == [k \in {k \in DOMAIN P : k[2] # g} |-> P[k]]
OtherRows(T, g) == {r \in T : r.guild_id # g}
\* the call left the rows of every guild but g as they are in the store
OtherGuildsUnchanged(out, g) ==
    /\ OtherPlayers(out.players, g) = OtherPlayers(players, g)
    /\ OtherRows(out.signatures, g) = OtherRows(signatures, g)
    /\ OtherRows(out.claims, g) = OtherRows(claims, g)
    /\ OtherRows(out.state, g) = OtherRows(state, g)
\* C27 (guild isolation): every join, leave, hex, mend, shield, claim, unclaim
\* and reset_game invoked for guild g, successful or not and with the expiry
\* purge it triggers, leaves the players, signatures, claims and guild state of
\* every other guild unchanged.
C27_GuildIsolation ==
    \A g \in Guilds :
        /\ OtherGuildsUnchanged(reset_game(players, signatures, claims, state, g), g)
        /\ \A a \in Users :
              /\ OtherGuildsUnchanged(join_game(players, signatures, claims, state, g, a, now), g)
              /\ OtherGuildsUnchanged(leave_game(players, signatures, claims, state, g, a), g)
              /\ \A bypass \in BOOLEAN :
                    /\ OtherGuildsUnchanged(
                           shield_self(players, signatures, claims, state, g, a, bypass, now), g)
                    /\ \A t \in Users :
                          /\ OtherGuildsUnchanged(
                                 hex_target(players, signatures, claims, state, g, a, t, bypass, now), g)
                          /\ OtherGuildsUnchanged(
                                 mend_target(players, signatures, claims, state, g, a, t, bypass, now), g)
              /\ \A t \in Users, type \in Types :
                    /\ OtherGuildsUnchanged(
                           claim_signature(players, signatures, claims, state, g, a, t, type, now), g)
                    /\ OtherGuildsUnchanged(
                           unclaim_signature(players, signatures, claims, state, g, a, t, type, now), g)
\* g1 has been reset, and g2 still has its players, its channel, and a
\* signature and a claim that expired before the reset
C27_Witness ==
    /\ res.call.op = "reset" /\ res.call.guild_id = "g1"
    /\ OtherPlayers(players, "g2") = <<>>
    /\ OtherRows(signatures, "g2") = {} /\ OtherRows(state, "g2") = {}
    /\ is_active(players, "u1", "g2") /\ is_active(players, "u2", "g2")
    /\ \E s \in signatures : s.guild_id = "g2" /\ s.expires_at <= now
    /\ \E c \in claims : c.guild_id = "g2" /\ c.expires_at <= now
    /\ get_state(state, "public_channel", "g2") = "c1"

\* ---------------------------------------------------------------------------
\* A store call that fails part-way through hex_target
\* ---------------------------------------------------------------------------

\* the store call raised (sqlite3.OperationalError); nothing in the engine
\* catches it or undoes the commits already made
StoreFailed == ActionResult(FALSE, "OperationalError")
\* the call runs alone, store call after store call, up to the one named
RECURSIVE hex_until(_, _, _)
hex_until(st, failing_call, t) ==
    IF st.task.pc \in {failing_call, "done"} THEN st
    ELSE hex_until(hex_step(st.task, st.players, st.signatures, st.claims, st.state, t),
                   failing_call, t)
\* mutant: the writes of the failed call are rolled back
hex_target_failing_rollback(P, S, C, St, g, actor_id, target_id, failing_call, t) ==
    Outcome(P, S, C, St, StoreFailed)
\* hex_target when the store call named raises: what the call leaves behind
hex_target_failing(P, S, C, St, g, actor_id, target_id, failing_call, t) ==
    LET call == Call("hex", g, actor_id, target_id, "hex", FALSE)
        start == IF actor_id = target_id
                 THEN Done([Idle EXCEPT !.call = call], ActionResult(FALSE, "SelfTarget"))
                 ELSE [Idle EXCEPT !.call = call, !.pc = "get_actor"]
        st == hex_until(Stepped(start, P, S, C, St), failing_call, t)
    IN Outcome(st.players, st.signatures, st.claims, st.state,
               IF st.task.pc = "done" THEN st.task.result ELSE StoreFailed)

OutOfGame(u) == ~is_active(players, u, G1)
TwoReflexes(i, j) ==
    /\ i # j
    /\ tasks[i].pc = "done" /\ tasks[j].pc = "done"
    /\ tasks[i].call.op = "hex" /\ tasks[j].call.op = "hex"
    /\ tasks[i].call.target = tasks[j].call.target
    /\ tasks[i].result.success /\ tasks[j].result.success
    /\ tasks[i].result.reflex_shield_triggered
    /\ tasks[j].result.reflex_shield_triggered
\* C31 (double Reflex Shield): two concurrent hex_target calls on a target
\* that has not acted today and whose doom + raw damage reaches THRESHOLD can
\* both report reflex_shield_triggered on the same day; whenever they do, both
\* cleansed the doom they read before either wrote, so the store holds the
\* outcome of one of them: one cleanse, the target veiled and marked as having
\* acted today.
C31_DoubleReflex ==
    \A i, j \in TaskIds :
        TwoReflexes(i, j) =>
            LET t == tasks[i].call.target IN
            /\ ReadDoom(i) = ReadDoom(j)
            /\ Row(t).doom \in {tasks[i].result.new_doom, tasks[j].result.new_doom}
            /\ Row(t).last_action_day = today_key(now)
            /\ Row(t).veil_until > now
\* both hexes on u1 fired a Reflex Shield on day 0
C31_Witness ==
    \E i, j \in TaskIds :
        /\ TwoReflexes(i, j)
        /\ tasks[i].call.actor # tasks[j].call.actor
        /\ today_key(now) = 0
        /\ Row(tasks[i].call.target).last_action_day = 0

\* ---------------------------------------------------------------------------
\* leave_game and shield_self, one store call at a time
\* ---------------------------------------------------------------------------
leave_step(task, P, S, C, St, t) ==
    LET g == task.call.guild_id
        user_id == task.call.actor
    IN
    CASE task.pc = "get_actor" ->
           LET player == get_player_or_none(P, user_id, g) IN
           IF not_in_game(player)
           THEN Stepped(Done(task, ActionResult(FALSE, "NotInGame")), P, S, C, St)
           ELSE Stepped([task EXCEPT !.actor = [player EXCEPT !.active = 0],
                                     !.pc = "update_actor"], P, S, C, St)
      [] task.pc = "update_actor" ->
           Stepped([task EXCEPT !.pc = "clear_signatures"],
                   update_player(P, task.actor), S, C, St)
      [] task.pc = "clear_signatures" ->
           Stepped([task EXCEPT !.pc = "clear_claims"],
                   P, clear_signatures(S, user_id, g), C, St)
      [] task.pc = "clear_claims" ->
           Stepped(Done(task, ActionResult(TRUE, "Left")),
                   P, S, clear_claims(C, user_id, g), St)

shield_step(task, P, S, C, St, t) ==
    LET g == task.call.guild_id
        user_id == task.call.actor
    IN
    CASE task.pc = "get_actor" ->
           LET player == get_player_or_none(P, user_id, g) IN
           IF not_in_game(player)
           THEN Stepped(Done(task, ActionResult(FALSE, "NotInGame")), P, S, C, St)
           ELSE Stepped([task EXCEPT !.actor = player, !.pc = "can_act_today"],
                        P, S, C, St)
      [] task.pc = "can_act_today" ->
           LET can == can_act_today(P, user_id, g, task.call.bypass, t)
               old == task.actor
               player == [old EXCEPT !.doom = Max2(0, old.doom - SHIELD_CLEANSE),
                                     !.veil_until = timestamp_from_hours(t, TTL),
                                     !.last_action_day = today_key(t)]
           IN IF ~can.ok
              THEN Stepped(Done(task, ActionResult(FALSE, can.reason)), P, S, C, St)
              ELSE Stepped([task EXCEPT !.actor = player,
                                        !.final_damage = 0 - (old.doom - player.doom),
                                        !.pc = "update_actor"], P, S, C, St)
      [] task.pc = "update_actor" ->
           Stepped(Done(task, ActionResultDoom("Shield", task.final_damage,
                                               task.actor.doom, FALSE, FALSE, NoUser)),
                   update_player(P, task.actor), S, C, St)

StartLeave(i, g, u) ==
    /\ Free(i)
    /\ tasks' = [tasks EXCEPT ![i] = [@ EXCEPT !.call = Call("leave", g, u, NoUser, "", FALSE),
                                               !.pc = "get_actor"]]
    /\ UNCHANGED <<players, signatures, claims, state, now, res, acted, ops>>

StartShield(i, g, u) ==
    /\ Free(i)
    /\ tasks' = [tasks EXCEPT ![i] = [@ EXCEPT !.call = Call("shield", g, u, NoUser, "", FALSE),
                                               !.pc = "get_actor"]]
    /\ UNCHANGED <<players, signatures, claims, state, now, res, acted, ops>>

LeaveStep(i) ==
    /\ tasks[i].pc \notin {"idle", "done"}
    /\ tasks[i].call.op = "leave"
    /\ Step(i, leave_step(tasks[i], players, signatures, claims, state, now))

ShieldStep(i) ==
    /\ tasks[i].pc \notin {"idle", "done"}
    /\ tasks[i].call.op = "shield"
    /\ Step(i, shield_step(tasks[i], players, signatures, claims, state, now))

\* A game in progress: u1 is one hex from elimination and may have acted
\* today, u2 plays, u3 has left.  Two joins, leaves, hexes, mends or shields
\* in flight at most.
InitLife ==
    /\ \E lad \in {None, today_key(0)} :
          players = [k \in {<<u, G1>> : u \in Users} |->
                        IF k[1] = "u1" THEN Player(k[1], G1, 0, THRESHOLD - 1, None, lad, 1)
                        ELSE IF k[1] = "u2" THEN Player(k[1], G1, 0, 0, None, None, 1)
                        ELSE Player(k[1], G1, 0, 3, None, None, 0)]
    /\ signatures = {}
    /\ claims = {}
    /\ state = {}
    /\ now = 0
    /\ res = Returned(Call("leave", G1, "u3", NoUser, "", FALSE), ActionResult(TRUE, "Left"))
    /\ acted = [today |-> {}, twice |-> {}, reflex |-> {}, reflex_twice |-> {}]
    /\ ops = 0
    /\ tasks = [i \in TaskIds |-> Idle]

NextLife ==
    \/ \E i \in TaskIds, u \in Users : StartJoin(i, G1, u)
    \/ \E i \in TaskIds, u \in Users : StartLeave(i, G1, u)
    \/ \E i \in TaskIds, a, t \in Users : StartHex(i, G1, a, t)
    \/ \E i \in TaskIds, a, t \in Users : StartMend(i, G1, a, t)
    \/ \E i \in TaskIds, u \in Users : StartShield(i, G1, u)
    \/ \E i \in TaskIds : JoinStep(i)
    \/ \E i \in TaskIds : LeaveStep(i)
    \/ \E i \in TaskIds : HexStep(i)
    \/ \E i \in TaskIds : MendStep(i)
    \/ \E i \in TaskIds : ShieldStep(i)

SpecLife == InitLife /\ [][NextLife]_vars

\* C32 (doom and active move together): update_player writes doom and active
\* of a player in one row update, so in every reachable state, the states
\* between the store calls of concurrent joins, leaves, hexes, mends and
\* shields included, every player with doom >= THRESHOLD has active = 0.
C32_ThresholdInactive ==
    \A k \in DOMAIN players : players[k].doom >= THRESHOLD => players[k].active = 0
\* a hex has stored u1 as eliminated and has store calls yet to make, while
\* another call that read u1 before is still in flight
C32_Witness ==
    /\ Row("u1").doom >= THRESHOLD /\ Row("u1").active = 0
    /\ \E i, j \in TaskIds :
          /\ i # j
          /\ tasks[i].call.op = "hex" /\ tasks[i].call.target = "u1"
          /\ tasks[i].pc \in {"update_actor", "add_signature"}
          /\ tasks[j].pc \notin {"idle", "done"}
          /\ tasks[j].call.op \in {"mend", "shield", "leave"}
          /\ "u1" \in {tasks[j].actor.user_id, tasks[j].target.user_id}

\* the step is a store call of a join_game of u
JoinStepOf(u) ==
    \E i \in TaskIds :
        /\ tasks[i].call.op = "join" /\ tasks[i].call.actor = u
        /\ tasks'[i] # tasks[i]
\* C33 (eliminated stays eliminated): once a hex has stored a player as
\* eliminated (active = 0, doom >= THRESHOLD) the player stays inactive until
\* a join_game of that player writes the record, under every interleaving: no
\* hex, mend or shield that read the record before the elimination writes it
\* back as active.
C33_EliminatedStays ==
    [][\A u \in Users :
          (/\ Row(u).active = 0 /\ Row(u).doom >= THRESHOLD
           /\ players'[<<u, G1>>].active = 1)
          => JoinStepOf(u)]_vars

\* C34 (the winner of a hex): in a sequence of completed operations a
\* successful hex_target leaves at least one active player in the guild; its
\* result names a winner only when the target was eliminated, and the winner
\* named is an active player other than the eliminated target.
C34_Winner ==
    \A a, t \in Users, bypass \in BOOLEAN :
        LET out == hex_target(players, signatures, claims, state, G1, a, t, bypass, now)
            winner_id == out.result.winner_id
        IN out.result.success =>
              /\ get_active_players(out.players, G1) # {}
              /\ winner_id # NoUser =>
                    /\ out.result.eliminated
                    /\ ~is_active(out.players, t, G1)
                    /\ is_active(out.players, winner_id, G1)
                    /\ winner_id # t
\* a hex has just eliminated its target and named the hexer, the last active
\* player, as the winner
C34_Witness ==
    /\ res.call.op = "hex" /\ res.result.eliminated
    /\ res.result.winner_id = res.call.actor
    /\ ActiveUsers = {res.call.actor}
    /\ Row(res.call.target).active = 0

\* C35 (doom arithmetic of a result): for every successful hex_target,
\* mend_target and shield_self the result has new_doom = the doom of the
\* affected player before the operation + doom_change, also for a hex in
\* which the Reflex Shield fired.
C35_ResultArithmetic ==
    \A a \in Users, bypass \in BOOLEAN :
        /\ LET shield == shield_self(players, signatures, claims, state, G1, a, bypass, now).result
           IN shield.success => shield.new_doom = Row(a).doom + shield.doom_change
        /\ \A t \in Users :
              LET hex == hex_target(players, signatures, claims, state, G1, a, t, bypass, now).result
                  mend == mend_target(players, signatures, claims, state, G1, a, t, bypass, now).result
              IN /\ hex.success => hex.new_doom = Row(t).doom + hex.doom_change
                 /\ mend.success => mend.new_doom = Row(t).doom + mend.doom_change

\* C36 (frame of a mend): mend_target never sets a player inactive, never
\* locks the roster and never changes any player's veil_until; apart from
\* adding the actor's mend signature it changes only the target's doom
\* (never increasing it, never below 0) and the actor's last_action_day.
\* Rows that have expired are left out of the comparison: every read purges
\* them and no read returns them.
C36_MendFrame ==
    \A a, t \in Users, bypass \in BOOLEAN :
        LET out == mend_target(players, signatures, claims, state, G1, a, t, bypass, now)
            mend_signature == Signature(t, a, G1, "mend", timestamp_from_hours(now, TTL))
        IN /\ out.state = state
           /\ DOMAIN out.players = DOMAIN players
           /\ \A k \in DOMAIN players :
                 /\ out.players[k].active = players[k].active
                 /\ out.players[k].veil_until = players[k].veil_until
                 /\ k # <<t, G1>> => out.players[k].doom = players[k].doom
                 /\ k # <<a, G1>> =>
                       out.players[k].last_action_day = players[k].last_action_day
           /\ <<t, G1>> \in DOMAIN players =>
                 /\ out.players[<<t, G1>>].doom <= Row(t).doom
                 /\ out.players[<<t, G1>>].doom >= 0
           /\ Unexpired(out.claims) = Unexpired(claims)
           /\ IF out.result.success
              THEN Unexpired(out.signatures) =
                      {s \in Unexpired(signatures) : ~SameSigKey(s, mend_signature)}
                         \cup {mend_signature}
              ELSE Unexpired(out.signatures) = Unexpired(signatures)

\* a mend by another player has just healed a veiled target
C36_Witness ==
    /\ res.call.op = "mend"
    /\ res.call.actor # res.call.target
    /\ res.result.doom_change < 0
    /\ Row(res.call.target).doom = res.result.new_doom
    /\ Row(res.call.target).veil_until > now
    /\ Row(res.call.actor).last_action_day = today_key(now)
    /\ \E s \in LiveSignatures(res.call.target, "mend", G1) : s.signer_id = res.call.actor

\* what a successful hex or mend of actor a on target t leaves behind
ActedAndSigned(out, a, t, type) ==
    LET before == Live(get_signatures(signatures, t, type, G1))
        after == Live(get_signatures(out.signatures, t, type, G1))
    IN /\ out.players[<<a, G1>>].last_action_day = today_key(now)
       /\ {s \in after : s.signer_id = a} =
             {Signature(t, a, G1, type, timestamp_from_hours(now, TTL))}
       /\ Cardinality(after) = Cardinality(before) + 1

\* C37 (actor of a hex or mend): after every successful hex_target or
\* mend_target of an actor on a target, including a hex that eliminated the
\* target, the actor's last_action_day is today, the actor holds exactly one
\* live signature of that type on the target, expiring SIGNATURE_TTL_HOURS
\* after the action, and the target has one more live signature of that type
\* than before.
C37_ActorSigned ==
    \A a, t \in Users, bypass \in BOOLEAN :
        LET hex == hex_target(players, signatures, claims, state, G1, a, t, bypass, now)
            mend == mend_target(players, signatures, claims, state, G1, a, t, bypass, now)
        IN /\ hex.result.success => ActedAndSigned(hex, a, t, "hex")
           /\ mend.result.success => ActedAndSigned(mend, a, t, "mend")

\* a hex on a train has just eliminated its target
C37_Witness ==
    /\ res.call.op = "hex"
    /\ res.result.eliminated
    /\ Row(res.call.target).active = 0
    /\ Row(res.call.actor).last_action_day = today_key(now)
    /\ Cardinality(LiveSignatures(res.call.target, "hex", G1)) >= 2
    /\ \E s \in LiveSignatures(res.call.target, "hex", G1) :
          /\ s.signer_id = res.call.actor
          /\ s.expires_at = timestamp_from_hours(now, TTL)

\* ------------------------------------------------------------ a new game
\* A game after its first elimination: u2's hex has eliminated u1 and locked
\* the roster, u2's signature on u1 is live.  Until the
\* game is reset u1 cannot come back (can_join_game refuses everybody).
InitReset ==
    /\ \E d \in InitDooms :
          players = [k \in {<<u, G1>> : u \in Users} |->
                        IF k[1] = "u1" THEN Player(k[1], G1, 0, THRESHOLD, None, None, 0)
                        ELSE IF k[1] = "u2" THEN Player(k[1], G1, 0, d, None, today_key(0), 1)
                        ELSE Player(k[1], G1, 0, 0, None, None, 1)]
    /\ signatures = {Signature("u1", "u2", G1, "hex", timestamp_from_hours(0, TTL))}
    /\ claims = {}
    /\ state = lock_roster({}, G1)
    /\ now = 0
    /\ res = Returned(Call("init", G1, NoUser, NoUser, "", FALSE), ActionResult(TRUE, ""))
    /\ acted = [today |-> {<<"u2", G1>>}, twice |-> {}, reflex |-> {}, reflex_twice |-> {}]
    /\ ops = 0
    /\ tasks = [i \in TaskIds |-> Idle]

NextReset ==
    \/ \E u \in Users : JoinGame(G1, u)
    \/ \E u \in Users : LeaveGame(G1, u)
    \/ \E a, t \in Users : HexTarget(G1, a, t, FALSE)
    \/ \E a, t \in Users : MendTarget(G1, a, t, FALSE)
    \/ \E u \in Users : ShieldSelf(G1, u, FALSE)
    \/ \E c, t \in Users, type \in Types : ClaimSignature(G1, c, t, type)
    \/ ResetGame(G1)
    \/ \E d \in {1, TicksPerDay} : Tick(d)

SpecReset == InitReset /\ [][NextReset]_vars

\* the guild has no row in any table
NoGameData(P, S, C, St, g) ==
    /\ \A k \in DOMAIN P : k[2] # g
    /\ \A r \in S \cup C \cup St : r.guild_id # g

\* C38 (reset): after reset_game returns true for a guild, the guild has no
\* player records, no signatures, no claims and no guild-state keys: the
\* roster is unlocked, check_game_end returns none, and any user, including
\* one who was eliminated before the reset, can join as a new player with
\* doom 0.
C38_Reset ==
    /\ res.call.op = "reset" => NoGameData(players, signatures, claims, state, G1)
    /\ LET out == reset_game(players, signatures, claims, state, G1)
       IN out.result.success =>
             /\ NoGameData(out.players, out.signatures, out.claims, out.state, G1)
             /\ ~is_roster_locked(out.state, G1)
             /\ check_game_end(out.players, G1) = NoUser
             /\ \A u \in Users :
                   LET joined == join_game(out.players, out.signatures, out.claims,
                                           out.state, G1, u, now)
                   IN /\ joined.result.success
                      /\ joined.players[<<u, G1>>] = Player(u, G1, now, 0, None, None, 1)

\* u1, eliminated in the old game, has joined the new one
C38_Witness ==
    /\ res.call.op = "join"
    /\ res.call.actor = "u1"
    /\ Row("u1").active = 1
    /\ Row("u1").doom = 0
    /\ ~is_roster_locked(state, G1)
    /\ DOMAIN players = {<<"u1", G1>>}

\* ------------------------------------------------------------ after an elimination
\* The evening of a day on which u1 and u3 have hexed each other and u2 has
\* claimed the hex train on u1: u1 stands one hex from the threshold and has
\* used its daily action, so no Reflex Shield will save it.
InitKeep ==
    /\ \E d \in InitDooms :
          players = [k \in {<<u, G1>> : u \in Users} |->
                        IF k[1] = "u1" THEN Player(k[1], G1, 0, THRESHOLD - 1, None, today_key(3), 1)
                        ELSE IF k[1] = "u2" THEN Player(k[1], G1, 0, d, None, None, 1)
                        ELSE Player(k[1], G1, 0, 1, None, today_key(3), 1)]
    /\ signatures = {Signature("u3", "u1", G1, "hex", timestamp_from_hours(3, TTL)),
                     Signature("u1", "u3", G1, "hex", timestamp_from_hours(3, TTL))}
    /\ claims = {Claim("u1", G1, "hex", "u2", timestamp_from_hours(3, TTL))}
    /\ state = {}
    /\ now = 3
    /\ res = Returned(Call("claim", G1, "u2", "u1", "hex", FALSE), ActionResult(TRUE, "Claimed"))
    /\ acted = [today |-> {<<"u1", G1>>, <<"u3", G1>>}, twice |-> {}, reflex |-> {}, reflex_twice |-> {}]
    /\ ops = 0
    /\ tasks = [i \in TaskIds |-> Idle]

SpecKeep == InitKeep /\ [][Next]_vars

Eliminated(u) ==
    /\ <<u, G1>> \in DOMAIN players
    /\ Row(u).active = 0
    /\ is_eliminated(Row(u).doom)
\* the step is a successful leave_game of u
LeaveBy(u) == ops' = ops + 1 /\ res'.call.op = "leave" /\ res'.call.actor = u

\* an eliminating hex deletes nothing that has not expired, and the trains
\* count every live signature, whoever signed it
EliminationKeeps ==
    \A a, t \in Users, bypass \in BOOLEAN :
        LET hex == hex_target(players, signatures, claims, state, G1, a, t, bypass, now)
            mend == mend_target(players, signatures, claims, state, G1, a, t, bypass, now)
        IN /\ (hex.result.success /\ hex.result.eliminated) =>
                 /\ Unexpired(hex.signatures) = Unexpired(signatures) \cup
                       {Signature(t, a, G1, "hex", timestamp_from_hours(now, TTL))}
                 /\ Unexpired(hex.claims) = Unexpired(claims)
           /\ (/\ hex.result.success
               /\ ~hex.result.reflex_shield_triggered
               /\ ~veil_is_active(Row(t), now)) =>
                 hex.result.doom_change = 1 + Cardinality(LiveSignatures(t, "hex", G1))
           /\ mend.result.success =>
                 mend.result.new_doom =
                    Max2(0, Row(t).doom - (1 + Cardinality(LiveSignatures(t, "mend", G1))))

\* a signature that is gone before it expired: its signer left, or the game was reset
SignatureRemoval(reset) ==
    \A s \in signatures :
        (s.expires_at > now' /\ s \notin signatures') =>
            (LeaveBy(s.signer_id) \/ (reset /\ ResetStep))
\* a claim on an eliminated player that is gone before it expired
ClaimRemoval(leave_or_reset) ==
    \A c \in claims :
        (Eliminated(c.target_id) /\ c.expires_at > now' /\ c \notin claims') =>
            (leave_or_reset /\ (LeaveBy(c.claimant_id) \/ ResetStep))

\* C39 (elimination keeps the trains), as the code has it: elimination by hex
\* deletes no signature and no claim: the signatures of the eliminated player
\* stay live until they expire and keep counting toward raw_damage and healing
\* on their targets, and the signatures and claims on the eliminated player
\* stay until they expire; only leave_game of the signer or claimant,
\* reset_game and expiry remove a signature or such a claim.
C39_EliminationKeeps ==
    /\ []EliminationKeeps
    /\ [][SignatureRemoval(TRUE) /\ ClaimRemoval(TRUE)]_vars

\* C39 as stated: only leave_game and expiry remove a signature, and the claims
\* on the eliminated player stay until they expire.
C39_OnlyLeaveAndExpiry ==
    /\ []EliminationKeeps
    /\ [][SignatureRemoval(FALSE) /\ ClaimRemoval(FALSE)]_vars

\* a hex has just counted the live signature of an eliminated signer, while a
\* signature and a claim on the eliminated player are still live
C39_Witness ==
    /\ res.call.op = "hex"
    /\ \E e \in Users :
          /\ Eliminated(e)
          /\ \E s \in LiveSignatures(res.call.target, "hex", G1) : s.signer_id = e
          /\ LiveSignatures(e, "hex", G1) # {}
          /\ LiveClaims(e, "hex", G1) # {}
    /\ res.result.doom_change >= 2
    /\ res.result.doom_change = Cardinality(LiveSignatures(res.call.target, "hex", G1))

\* ------------------------------------------------------------ reading a train
\* get_train_status (logic.py 66-78) step by step: it awaits get_signatures,
\* which purges at the clock value purge_expired reads and selects, and then
\* computes the ages with hours_since, which reads the clock again.
status_step(task, P, S, C, St, t) ==
    LET g == task.call.guild_id
        target_id == task.call.target
        sig_type == task.call.type
    IN
    CASE task.pc = "get_signatures" ->
           LET S1 == purge_expired_signatures(S, g, t)
               C1 == purge_expired_claims(C, g, t)
           IN Stepped([task EXCEPT !.signatures = get_signatures(S1, target_id, sig_type, g),
                                   !.pc = "freshness"], P, S1, C1, St)
      [] task.pc = "freshness" ->
           Stepped(Done(task, get_train_status(task.signatures, target_id, sig_type, g, t)),
                   P, S, C, St)

StartStatus(i, g, t, type) ==
    /\ Free(i)
    /\ tasks' = [tasks EXCEPT ![i] = [@ EXCEPT !.call = Call("status", g, NoUser, t, type, FALSE),
                                               !.pc = "get_signatures"]]
    /\ UNCHANGED <<players, signatures, claims, state, now, res, acted, ops>>

StatusStep(i) ==
    /\ tasks[i].pc \notin {"idle", "done"}
    /\ tasks[i].call.op = "status"
    /\ LET out == status_step(tasks[i], players, signatures, claims, state, now) IN
       /\ tasks' = [tasks EXCEPT ![i] = out.task]
       /\ signatures' = out.signatures
       /\ claims' = out.claims
    /\ UNCHANGED <<players, state, now, res, acted, ops>>

\* The evening of a day on which u2 hexed u1 at 00:00, 06:00, 12:00 or 18:00
\* and u1 and u3 mended u2 six hours apart; two reads of a train in flight at
\* most, the clock moving between their steps.
InitStatus ==
    /\ \E created \in 0..3 :
          /\ players = [k \in {<<u, G1>> : u \in Users} |->
                           IF k[1] = "u1" THEN Player(k[1], G1, 0, 1, None, today_key(2), 1)
                           ELSE IF k[1] = "u2" THEN Player(k[1], G1, 0, 0, None, today_key(created), 1)
                           ELSE Player(k[1], G1, 0, 0, None, today_key(3), 1)]
          /\ signatures = {Signature("u1", "u2", G1, "hex", timestamp_from_hours(created, TTL)),
                           Signature("u2", "u1", G1, "mend", timestamp_from_hours(2, TTL)),
                           Signature("u2", "u3", G1, "mend", timestamp_from_hours(3, TTL))}
    /\ claims = {}
    /\ state = {}
    /\ now = 3
    /\ res = Returned(Call("mend", G1, "u3", "u2", "mend", FALSE),
                      ActionResultDoom("Mend", 0, 0, FALSE, FALSE, NoUser))
    /\ acted = [today |-> {<<u, G1>> : u \in Users}, twice |-> {}, reflex |-> {}, reflex_twice |-> {}]
    /\ ops = 0
    /\ tasks = [i \in TaskIds |-> Idle]

NextStatus ==
    \/ \E i \in TaskIds, t \in Users, type \in Types : StartStatus(i, G1, t, type)
    \/ \E i \in TaskIds : StatusStep(i)
    \/ TickBetween

SpecStatus == InitStatus /\ [][NextStatus]_vars

\* C40 (a non-empty train is never labelled Expired): get_train_status returns
\* freshness "Expired" if and only if count = 0: every live signature has an
\* age in [0, 24) hours, so a non-empty train is always labelled Fresh, Warm
\* or Cooling.
C40_ExpiredIffEmpty ==
    /\ \A s \in signatures :
          s.expires_at > now => (0 <= AgeHours(s) /\ AgeHours(s) < SIGNATURE_TTL_HOURS)
    /\ \A i \in TaskIds :
          (tasks[i].pc = "done" /\ tasks[i].call.op = "status") =>
              (tasks[i].result.freshness = "Expired" <=> tasks[i].result.count = 0)

====
